---- MODULE Spec2Model ----
(***************************************************************************)
(* Question-answering pipelines of src/agents/langgraph_agent.py           *)
(* (LifeScienceAgent) and src/agents/workflow_agent.py (WorkflowAgent),    *)
(* and the WorkflowEvaluator of evaluation_metrics/evaluation_metrics.py   *)
(* and of src/agents/evaluation_metrics.py, the TemplateQueryAgent of      *)
(* src/agents/template_query_agent.py and the exercise progression of      *)
(* docs/exercises/practice-exercises.py.                                   *)
(*                                                                         *)
(* A Python string is a sequence of atoms: a one-character atom is that    *)
(* character, a longer atom is a literal of the source (a message          *)
(* template, a JSON token, a code fence).  A Python value is a tagged      *)
(* record: None, Str(s) or List(items).                                    *)
(***************************************************************************)
EXTENDS Integers, Sequences, FiniteSets, TLC

\* ------------------------------------------------------------------ bounds
MaxLabelLen == 1      \* atoms in a classifier / formatter response
MaxJsonLen  == 3      \* atoms in an extractor response
MaxQueryLen == 2      \* atoms in a generator response
MaxRows     == 4      \* rows returned by graph_db.execute_query
MaxExamples == 3      \* examples in an evaluation dataset
MaxListLen  == 2      \* entities or expected results listed in an example
MaxNameLen  == 3      \* characters in a string given to _normalize_string
MaxTemplateCalls == 2 \* query methods called on one TemplateQueryAgent
MaxQueryLines == 2    \* lines of a query that the generator wraps in a code fence
MaxRecommendations == 9 \* recommendations asked for by one learner

\* ------------------------------------------------------------ Python values
None     == [t |-> "None"]
Str(s)   == [t |-> "str", s |-> s]
List(xs) == [t |-> "list", items |-> xs]

\* truth value of a Python object, as used by `if x`, `not x` and `x or y`
Truthy(v) ==
  CASE v.t = "None" -> FALSE
    [] v.t = "str"  -> v.s # <<>>
    [] v.t = "list" -> v.items # <<>>

\* dict.get(key, default): the default is used only when the key is absent
DictGet(d, k, default) == IF k \in DOMAIN d THEN d[k] ELSE default

\* str(x) inside an f-string
FormatStr(v) == IF v.t = "str" THEN v.s ELSE <<"None">>

\* ---------------------------------------------------------------- strings
Whitespace == {" ", "\n"}

RECURSIVE LStrip(_)
LStrip(s) == IF s # <<>> /\ Head(s) \in Whitespace THEN LStrip(Tail(s)) ELSE s

RECURSIVE RStrip(_)
RStrip(s) ==
  IF s # <<>> /\ s[Len(s)] \in Whitespace THEN RStrip(SubSeq(s, 1, Len(s) - 1)) ELSE s

\* str.strip()
Strip(s) == RStrip(LStrip(s))

\* str.startswith(atom)
StartsWith(s, a) == s # <<>> /\ Head(s) = a

\* `e in s` for strings
Contains(s, e) ==
  \E i \in 1..(Len(s) + 1) : i + Len(e) - 1 <= Len(s) /\ SubSeq(s, i, i + Len(e) - 1) = e

\* str.split(sep): the pieces between the occurrences of sep
RECURSIVE SplitFrom(_, _, _, _)
SplitFrom(s, sep, i, cur) ==
  IF i > Len(s) THEN <<cur>>
  ELSE IF s[i] = sep THEN <<cur>> \o SplitFrom(s, sep, i + 1, <<>>)
  ELSE SplitFrom(s, sep, i + 1, Append(cur, s[i]))

Split(s, sep) == SplitFrom(s, sep, 1, <<>>)

\* sep.join(parts)
RECURSIVE Join(_, _)
Join(parts, sep) ==
  IF parts = <<>> THEN <<>>
  ELSE IF Len(parts) = 1 THEN parts[1]
  ELSE parts[1] \o <<sep>> \o Join(Tail(parts), sep)

\* all sequences over alphabet A of length at most n
SeqsUpTo(A, n) == UNION {[1..k -> A] : k \in 0..n}


\* ------------------------------------------------------------- json.loads
\* Atoms of an extractor response: the JSON tokens "[", "]", ",", a quoted
\* string literal QuotedE (whose value is the string e), a bare word
\* BareWord (not JSON), and whitespace.
QuotedE  == "\"e\""
BareWord == "w"

NoParse == [ok |-> FALSE, val |-> None, next |-> 0]

RECURSIVE ParseValue(_, _)
RECURSIVE ParseItems(_, _, _)

\* one JSON value starting at toks[i]
ParseValue(toks, i) ==
  IF i > Len(toks) THEN NoParse
  ELSE IF toks[i] = QuotedE THEN [ok |-> TRUE, val |-> Str(<<"e">>), next |-> i + 1]
  ELSE IF toks[i] = "[" THEN
    IF i + 1 <= Len(toks) /\ toks[i + 1] = "]"
      THEN [ok |-> TRUE, val |-> List(<<>>), next |-> i + 2]
      ELSE ParseItems(toks, i + 1, <<>>)
  ELSE NoParse

\* the elements of an array, toks[i] being the start of the next element
ParseItems(toks, i, acc) ==
  LET v == ParseValue(toks, i) IN
  IF ~v.ok \/ v.next > Len(toks) THEN NoParse
  ELSE IF toks[v.next] = "]"
    THEN [ok |-> TRUE, val |-> List(Append(acc, v.val)), next |-> v.next + 1]
  ELSE IF toks[v.next] = ","
    THEN ParseItems(toks, v.next + 1, Append(acc, v.val))
  ELSE NoParse

\* json.loads(text): ok = FALSE stands for json.JSONDecodeError
json_loads(text) ==
  LET toks == SelectSeq(text, LAMBDA a : a \notin Whitespace)
      r    == ParseValue(toks, 1)
  IN IF r.ok /\ r.next = Len(toks) + 1 THEN r ELSE NoParse

\* re.search(r"\[.*\]", text, re.DOTALL): from the first "[" to the last "]"
BracketMatch(text) ==
  LET opens  == {i \in 1..Len(text) : text[i] = "["}
      closes == {i \in 1..Len(text) : text[i] = "]"}
  IN IF opens = {} THEN [found |-> FALSE, text |-> <<>>]
     ELSE LET lo == CHOOSE i \in opens : \A j \in opens : i <= j
              after == {j \in closes : j > lo}
          IN IF after = {} THEN [found |-> FALSE, text |-> <<>>]
             ELSE LET hi == CHOOSE i \in after : \A j \in after : j <= i
                  IN [found |-> TRUE, text |-> SubSeq(text, lo, hi)]

\* ----------------------------------------------------------- collaborators
\* One anthropic.messages.create call: it raises, or returns a response whose
\* content is empty, whose first block has no text attribute, or whose first
\* block carries a text.
Responses(texts) ==
  {[kind |-> k, text |-> <<>>] : k \in {"raise", "empty", "notext"}}
    \cup {[kind |-> "text", text |-> s] : s \in texts}

LabelTexts  == SeqsUpTo({" ", "a"}, MaxLabelLen)
EntityTexts == SeqsUpTo({"[", "]", ",", QuotedE, BareWord, " "}, MaxJsonLen)
\* the code-fence marker (three backquotes)
Fence       == "<fence>"
QueryTexts  == SeqsUpTo({Fence, "cypher", "\n", "MATCH"}, MaxQueryLen)
AnswerTexts == LabelTexts

\* graph_db.execute_query returns a list of rows or raises; str(e) may be empty
ExcTexts   == {<<>>, <<"db down">>}
RowSeqs    == SeqsUpTo({"row"}, MaxRows)
DbOutcomes == {[t |-> "raise", s |-> m] : m \in ExcTexts} \cup {List(r) : r \in RowSeqs}

Questions == {<<"q1">>, <<"q2">>}

\* one recorded collaborator call
Call(node, callee, arg, ret) == [node |-> node, callee |-> callee, arg |-> arg, ret |-> ret]
LLMCall(node) == Call(node, "messages.create", None, None)

\* what a node hands back to the graph runtime: the state it returns, or the
\* exception it lets escape, and the collaborator calls it made
NoExc == "none"
Returns(st, calls) == [st |-> st, exc |-> NoExc, calls |-> calls]
Raises(st, exc, calls) == [st |-> st, exc |-> exc, calls |-> calls]

\* ------------------------------------------------------- LifeScienceAgent
General        == <<"general">>
NoQueryMsg     == <<"No Cypher query generated">>
InvalidMsg     == <<"Invalid Cypher query">>
NoInfoLS       == <<"I couldn't find any information matching your question.">>
UnableMsg      == <<"Unable to generate response.">>
ErrPrefixLS    == <<"I encountered an error: ">>
ErrSuffixLS    == <<". Please try rephrasing your question.">>
UnknownErrMsg  == <<"An unknown error occurred">>
UnableToProcess == <<"Unable to process question">>

LS_InitialState(question) ==
  [user_question |-> Str(question), question_type |-> None, entities |-> None,
   cypher_query |-> None, query_results |-> None, final_answer |-> None,
   error |-> None]

\* LifeScienceAgent._get_response_text
LS_get_response_text(resp) == IF resp.kind = "text" THEN resp.text ELSE <<>>

LS_classify_question(st, resp) ==
  IF resp.kind = "raise" THEN Raises(st, "APIError", <<LLMCall("classify_question")>>)
  ELSE LET label == Strip(LS_get_response_text(resp)) IN
       Returns([st EXCEPT !.question_type =
                  IF label # <<>> THEN Str(label) ELSE Str(General)],
               <<LLMCall("classify_question")>>)

\* LS_extract_entities without the except clause
LS_extract_entities_NoExcept(st, resp) ==
  IF resp.kind = "raise" THEN Raises(st, "APIError", <<LLMCall("extract_entities")>>)
  ELSE LET response_text == Strip(LS_get_response_text(resp))
           json_match    == BracketMatch(response_text)
           parsed == IF StartsWith(response_text, "[") THEN json_loads(response_text)
                     ELSE IF json_match.found THEN json_loads(json_match.text)
                     ELSE [ok |-> TRUE, val |-> List(<<>>), next |-> 0]
       IN IF parsed.ok
            THEN Returns([st EXCEPT !.entities = parsed.val], <<LLMCall("extract_entities")>>)
            ELSE Raises(st, "JSONDecodeError", <<LLMCall("extract_entities")>>)

LS_extract_entities(st, resp) ==
  IF resp.kind = "raise" THEN Raises(st, "APIError", <<LLMCall("extract_entities")>>)
  ELSE LET response_text == Strip(LS_get_response_text(resp))
           json_match    == BracketMatch(response_text)
           parsed == IF StartsWith(response_text, "[") THEN json_loads(response_text)
                     ELSE IF json_match.found THEN json_loads(json_match.text)
                     ELSE [ok |-> TRUE, val |-> List(<<>>), next |-> 0]
       IN Returns([st EXCEPT !.entities = IF parsed.ok THEN parsed.val ELSE List(<<>>)],
                  <<LLMCall("extract_entities")>>)

LS_generate_cypher_query(st, resp) ==
  IF resp.kind = "raise" THEN Raises(st, "APIError", <<LLMCall("generate_cypher")>>)
  ELSE LET raw      == Strip(LS_get_response_text(resp))
           inner    == Split(raw, Fence)[2]
           unfenced == IF StartsWith(inner, "cypher") THEN Strip(Tail(inner)) ELSE inner
           cypher_query == IF StartsWith(raw, Fence) THEN unfenced ELSE raw
       IN Returns([st EXCEPT !.cypher_query = Str(cypher_query)],
                  <<LLMCall("generate_cypher")>>)

\* LS_execute_query with the result of validate_query ignored
LS_execute_query_IgnoresValidation(st, valid, dbres) ==
  IF ~Truthy(DictGet(st, "cypher_query", None))
    THEN Returns([st EXCEPT !.error = Str(NoQueryMsg)], <<>>)
  ELSE
    LET cypher_query == DictGet(st, "cypher_query", Str(<<>>))
        validate == Call("execute_query", "validate_query", cypher_query,
                         [t |-> "bool", b |-> valid])
        execute  == Call("execute_query", "execute_query", cypher_query, dbres)
    IN IF dbres.t = "raise"
         THEN Returns([st EXCEPT !.error = Str(dbres.s)], <<validate, execute>>)
       ELSE Returns([st EXCEPT !.query_results = dbres], <<validate, execute>>)

LS_execute_query(st, valid, dbres) ==
  IF ~Truthy(DictGet(st, "cypher_query", None))
    THEN Returns([st EXCEPT !.error = Str(NoQueryMsg)], <<>>)
  ELSE
    LET cypher_query == DictGet(st, "cypher_query", Str(<<>>))
        validate == Call("execute_query", "validate_query", cypher_query,
                         [t |-> "bool", b |-> valid])
        execute  == Call("execute_query", "execute_query", cypher_query, dbres)
    IN IF ~Truthy(cypher_query) THEN Returns([st EXCEPT !.error = Str(InvalidMsg)], <<>>)
       ELSE IF ~valid THEN Returns([st EXCEPT !.error = Str(InvalidMsg)], <<validate>>)
       ELSE IF dbres.t = "raise"
         THEN Returns([st EXCEPT !.error = Str(dbres.s)], <<validate, execute>>)
       ELSE Returns([st EXCEPT !.query_results = dbres], <<validate, execute>>)

\* LS_format_response with the emptiness test narrowed to `is None`
LS_format_response_NoneOnly(st, resp) ==
  IF DictGet(st, "query_results", None) = None
    THEN Returns([st EXCEPT !.final_answer = Str(NoInfoLS)], <<>>)
  ELSE IF resp.kind = "raise" THEN Raises(st, "APIError", <<LLMCall("format_response")>>)
  ELSE LET answer == Strip(LS_get_response_text(resp)) IN
       Returns([st EXCEPT !.final_answer =
                  IF answer # <<>> THEN Str(answer) ELSE Str(UnableMsg)],
               <<LLMCall("format_response")>>)

LS_format_response(st, resp) ==
  IF ~Truthy(DictGet(st, "query_results", None))
    THEN Returns([st EXCEPT !.final_answer = Str(NoInfoLS)], <<>>)
  ELSE IF resp.kind = "raise" THEN Raises(st, "APIError", <<LLMCall("format_response")>>)
  ELSE LET answer == Strip(LS_get_response_text(resp)) IN
       Returns([st EXCEPT !.final_answer =
                  IF answer # <<>> THEN Str(answer) ELSE Str(UnableMsg)],
               <<LLMCall("format_response")>>)

LS_handle_error(st) ==
  LET error_msg == DictGet(st, "error", Str(UnknownErrMsg)) IN
  Returns([st EXCEPT !.final_answer =
             Str(ErrPrefixLS \o FormatStr(error_msg) \o ErrSuffixLS)], <<>>)

\* the conditional edge of _build_workflow
LS_route(st) ==
  IF Truthy(DictGet(st, "error", None)) THEN "handle_error" ELSE "format_response"

\* nodes triggered when `node` has returned `st`: the edges of _build_workflow.
\* execute_query has both the plain edge to format_response and the
\* conditional edges.
LS_successors(node, st) ==
  CASE node = "classify_question" -> {"extract_entities"}
    [] node = "extract_entities"  -> {"generate_cypher"}
    [] node = "generate_cypher"   -> {"execute_query"}
    [] node = "execute_query"     -> {"format_response"} \cup {LS_route(st)}
    [] node = "format_response"   -> {}
    [] node = "handle_error"      -> {}

\* the dictionary built by LifeScienceAgent.answer_question from the final
\* state; len(None) raises TypeError
LS_result(final_state) ==
  LET rows == DictGet(final_state, "query_results", List(<<>>)) IN
  IF rows.t = "None" THEN [exc |-> "TypeError", value |-> None]
  ELSE [exc |-> NoExc,
        value |-> [answer        |-> DictGet(final_state, "final_answer", Str(UnableToProcess)),
                   cypher_query  |-> DictGet(final_state, "cypher_query", None),
                   entities      |-> DictGet(final_state, "entities", List(<<>>)),
                   results_count |-> Len(rows.items),
                   error         |-> DictGet(final_state, "error", None)]]

\* ---------------------------------------------------------- WorkflowAgent
QueryFailedPrefix == <<"Query failed: ">>
SorryPrefix       == <<"Sorry, I had trouble with that question: ">>
NoInfoWA == <<"I didn't find any information for that question. ",
              "Try asking about genes, diseases, or drugs in our database.">>
NoAnswerGenerated == <<"No answer generated">>
\* str(content) of a content block that has no text attribute
ReprText == <<"<content block>">>

WA_InitialState(question) ==
  [user_question |-> Str(question), question_type |-> None, entities |-> None,
   cypher_query |-> None, results |-> None, final_answer |-> None,
   error |-> None]

\* `content = response.content[0]`, then content.text.strip() or str(content);
\* content[0] of an empty content raises IndexError
WA_content_text(resp) ==
  IF resp.kind = "empty" THEN [exc |-> "IndexError", text |-> <<>>]
  ELSE IF resp.kind = "text" THEN [exc |-> NoExc, text |-> Strip(resp.text)]
  ELSE [exc |-> NoExc, text |-> ReprText]

WA_classify_question(st, resp) ==
  LET content == WA_content_text(resp) IN
  IF resp.kind = "raise" THEN Raises(st, "APIError", <<LLMCall("classify")>>)
  ELSE IF content.exc # NoExc THEN Raises(st, content.exc, <<LLMCall("classify")>>)
  ELSE Returns([st EXCEPT !.question_type = Str(content.text)], <<LLMCall("classify")>>)

WA_extract_entities(st, resp) ==
  LET content == WA_content_text(resp)
      parsed  == json_loads(content.text)
  IN
  IF resp.kind = "raise" THEN Raises(st, "APIError", <<LLMCall("extract")>>)
  ELSE Returns([st EXCEPT !.entities =
                  IF content.exc = NoExc /\ parsed.ok THEN parsed.val ELSE List(<<>>)],
               <<LLMCall("extract")>>)

WA_generate_query(st, resp) ==
  LET content == WA_content_text(resp)
      lines   == Split(content.text, "\n")
      kept    == SelectSeq(lines, LAMBDA line :
                   ~StartsWith(line, Fence) /\ ~StartsWith(line, "cypher"))
      cypher_query == IF StartsWith(content.text, Fence) THEN Join(kept, "\n")
                      ELSE content.text
  IN
  IF resp.kind = "raise" THEN Raises(st, "APIError", <<LLMCall("generate")>>)
  ELSE IF content.exc # NoExc THEN Raises(st, content.exc, <<LLMCall("generate")>>)
  ELSE Returns([st EXCEPT !.cypher_query = Str(cypher_query)], <<LLMCall("generate")>>)

\* WA_execute_query with a missing query reported as an error
WA_execute_query_MissingIsError(st, dbres) ==
  LET query   == DictGet(st, "cypher_query", None)
      execute == Call("execute", "execute_query", query, dbres)
  IN
  IF ~Truthy(query)
    THEN Returns([st EXCEPT !.error = Str(QueryFailedPrefix \o NoQueryMsg),
                            !.results = List(<<>>)], <<>>)
  ELSE IF dbres.t = "raise"
    THEN Returns([st EXCEPT !.error = Str(QueryFailedPrefix \o dbres.s),
                            !.results = List(<<>>)], <<execute>>)
  ELSE Returns([st EXCEPT !.results = dbres], <<execute>>)

WA_execute_query(st, dbres) ==
  LET query   == DictGet(st, "cypher_query", None)
      execute == Call("execute", "execute_query", query, dbres)
  IN
  IF ~Truthy(query) THEN Returns([st EXCEPT !.results = List(<<>>)], <<>>)
  ELSE IF dbres.t = "raise"
    THEN Returns([st EXCEPT !.error = Str(QueryFailedPrefix \o dbres.s),
                            !.results = List(<<>>)], <<execute>>)
  ELSE Returns([st EXCEPT !.results = dbres], <<execute>>)

\* format_answer testing the rows before the error
WA_format_answer_RowsFirst(st, resp) ==
  LET results == DictGet(st, "results", None)
      content == WA_content_text(resp)
  IN
  IF ~Truthy(results)
    THEN Returns([st EXCEPT !.final_answer = Str(NoInfoWA)], <<>>)
  ELSE IF Truthy(DictGet(st, "error", None))
    THEN Returns([st EXCEPT !.final_answer = Str(SorryPrefix \o FormatStr(st.error))], <<>>)
  ELSE IF resp.kind = "raise" THEN Raises(st, "APIError", <<LLMCall("format")>>)
  ELSE IF content.exc # NoExc THEN Raises(st, content.exc, <<LLMCall("format")>>)
  ELSE Returns([st EXCEPT !.final_answer = Str(content.text)], <<LLMCall("format")>>)

WA_format_answer(st, resp) ==
  LET results == DictGet(st, "results", None)
      content == WA_content_text(resp)
  IN
  IF Truthy(DictGet(st, "error", None))
    THEN Returns([st EXCEPT !.final_answer = Str(SorryPrefix \o FormatStr(st.error))], <<>>)
  ELSE IF ~Truthy(results)
    THEN Returns([st EXCEPT !.final_answer = Str(NoInfoWA)], <<>>)
  ELSE IF resp.kind = "raise" THEN Raises(st, "APIError", <<LLMCall("format")>>)
  ELSE IF content.exc # NoExc THEN Raises(st, content.exc, <<LLMCall("format")>>)
  ELSE Returns([st EXCEPT !.final_answer = Str(content.text)], <<LLMCall("format")>>)

\* the edges of _create_workflow
WA_successors(node, st) ==
  CASE node = "classify" -> {"extract"}
    [] node = "extract"  -> {"generate"}
    [] node = "generate" -> {"execute"}
    [] node = "execute"  -> {"format"}
    [] node = "format"   -> {}

\* the dictionary built by WorkflowAgent.answer_question from the final state
\* WA_result with the row count taken from the truncated raw_results
WA_result_CountsRawResults(final_state) ==
  LET results == DictGet(final_state, "results", List(<<>>)) IN
  IF results.t = "None" THEN [exc |-> "TypeError", value |-> None]
  ELSE [exc |-> NoExc,
        value |-> [answer        |-> DictGet(final_state, "final_answer", Str(NoAnswerGenerated)),
                   question_type |-> DictGet(final_state, "question_type", None),
                   entities      |-> DictGet(final_state, "entities", List(<<>>)),
                   cypher_query  |-> DictGet(final_state, "cypher_query", None),
                   results_count |-> IF Len(results.items) < 3 THEN Len(results.items) ELSE 3,
                   raw_results   |-> SubSeq(results.items, 1,
                                      IF Len(results.items) < 3 THEN Len(results.items) ELSE 3),
                   error         |-> DictGet(final_state, "error", None)]]

WA_result(final_state) ==
  LET results == DictGet(final_state, "results", List(<<>>)) IN
  IF results.t = "None" THEN [exc |-> "TypeError", value |-> None]
  ELSE [exc |-> NoExc,
        value |-> [answer        |-> DictGet(final_state, "final_answer", Str(NoAnswerGenerated)),
                   question_type |-> DictGet(final_state, "question_type", None),
                   entities      |-> DictGet(final_state, "entities", List(<<>>)),
                   cypher_query  |-> DictGet(final_state, "cypher_query", None),
                   results_count |-> Len(results.items),
                   raw_results   |-> SubSeq(results.items, 1,
                                      IF Len(results.items) < 3 THEN Len(results.items) ELSE 3),
                   error         |-> DictGet(final_state, "error", None)]]

\* ---------------------------------------------------------------- evaluator
\* WorkflowEvaluator of evaluation_metrics/evaluation_metrics.py (operators
\* EV_...) and of src/agents/evaluation_metrics.py (operators EB_...).
\* A character string is a sequence of one-character atoms; a dictionary is
\* a function from its keys to Python values.
Dict(f) == [t |-> "dict", d |-> f]

\* dict.values(), as the collection of the values
DictValues(v) == {v.d[k] : k \in DOMAIN v.d}

\* the uppercase letters of the modelled alphabet and their lowercase forms
LowerOf(c) ==
  CASE c = "A" -> "a"
    [] c = "B" -> "b"
    [] c = "N" -> "n"
    [] OTHER   -> c

\* str.lower()
Lower(s) == IF s = <<>> THEN <<>> ELSE [i \in 1..Len(s) |-> LowerOf(s[i])]

\* str.replace(old, new) for one-character old and new
Replace(s, old, new) ==
  IF s = <<>> THEN <<>> ELSE [i \in 1..Len(s) |-> IF s[i] = old THEN new ELSE s[i]]

\* str(x): a string is itself, None is the text None, any other object is
\* its repr (one opaque atom)
PyStr(v) ==
  CASE v.t = "str"  -> v.s
    [] v.t = "None" -> <<"N", "o", "n", "e">>
    [] OTHER        -> ReprText

\* str.lower().strip().replace('_', ' ').replace('-', ' ')
EV_normalize_chars(s) ==
  Replace(Replace(Strip(Lower(s)), "_", " "), "-", " ")

\* WorkflowEvaluator._normalize_string
EV_normalize_string(v) == EV_normalize_chars(PyStr(v))

\* isinstance(value, (str, int, float)); the modelled scalars are strings
IsScalar(v) == v.t = "str"

\* WorkflowEvaluator._extract_values_from_results: the normalized scalar
\* values of the rows, and of the lists found one level below a row
EV_extract_values_from_results(results) ==
  UNION {
    IF item.t = "dict" THEN
      UNION { IF IsScalar(value) THEN {EV_normalize_string(value)}
              ELSE IF value.t = "list"
                THEN {EV_normalize_string(v) : v \in {value.items[i] : i \in 1..Len(value.items)}}
              ELSE {}
              : value \in DictValues(item) }
    ELSE IF IsScalar(item) THEN {EV_normalize_string(item)}
    ELSE {}
    : item \in {results[i] : i \in 1..Len(results)} }

\* str(n) for a natural number
Digits == <<"0", "1", "2", "3", "4", "5", "6", "7", "8", "9">>

RECURSIVE Decimal(_)
Decimal(n) == IF n < 10 THEN <<Digits[n + 1]>> ELSE Decimal(n \div 10) \o <<Digits[(n % 10) + 1]>>

\* the literal prefix of the key given to an example without conversation_id
SinglePrefix == "single_"

\* the grouping loop of evaluate: grouped_dataset is a dictionary in
\* insertion order, here the sequence of its (key, examples) items
RECURSIVE EV_group(_, _, _)
EV_group(dataset, i, grouped) ==
  IF i > Len(dataset) THEN grouped
  ELSE
    LET example == dataset[i]
        conv_id == DictGet(example, "conversation_id",
                           Str(<<SinglePrefix>> \o Decimal(Len(grouped))))
        at      == {g \in 1..Len(grouped) : grouped[g].key = conv_id}
    IN IF at = {}
         THEN EV_group(dataset, i + 1,
                       Append(grouped, [key |-> conv_id, examples |-> <<example>>]))
         ELSE LET g == CHOOSE g \in at : TRUE
              IN EV_group(dataset, i + 1,
                          [grouped EXCEPT ![g].examples = Append(@, example)])

\* the elements a for loop or set() takes from a value: the items of a list,
\* the characters of a string
Iterable(v) == v.t \in {"list", "str"}
Elements(v) ==
  IF v.t = "list" THEN {v.items[i] : i \in 1..Len(v.items)}
  ELSE {Str(<<v.s[i]>>) : i \in 1..Len(v.s)}

\* `output["question_type"] == example.get("expected_type")`
\* the category comparison made on normalized strings
EV_classification_match_Normalized(output, example) ==
  EV_normalize_string(output.question_type)
    = EV_normalize_string(DictGet(example, "expected_type", None))

\* `output["question_type"] == example.get("expected_type")`
EV_classification_match(output, example) ==
  output.question_type = DictGet(example, "expected_type", None)

\* the set comprehension {self._normalize_string(e) for e in xs}
EV_normalized_set(xs) == {EV_normalize_string(e) : e \in Elements(xs)}

\* the entity comparison on the raw sequences of entities
EV_entities_match_AsLists(output, example) ==
  DictGet(output, "entities", List(<<>>)) = DictGet(example, "expected_entities", List(<<>>))

\* the entity comparison: equality of the two normalized sets
EV_entities_match(output, example) ==
  EV_normalized_set(DictGet(output, "entities", List(<<>>)))
    = EV_normalized_set(DictGet(example, "expected_entities", List(<<>>)))

\* the answer check with the second test not chained to the first
EV_answer_increment_BothBranches(output, example) ==
  LET output_values   == EV_extract_values_from_results(DictGet(output, "raw_results", <<>>))
      expected_values == EV_normalized_set(DictGet(example, "expected_results", List(<<>>)))
  IN (IF expected_values = {} /\ output_values = {} THEN 1 ELSE 0)
       + (IF output_values = expected_values THEN 1 ELSE 0)

\* the answer check: what it adds to answer_correct
EV_answer_increment(output, example) ==
  LET output_values   == EV_extract_values_from_results(DictGet(output, "raw_results", <<>>))
      expected_values == EV_normalized_set(DictGet(example, "expected_results", List(<<>>)))
  IN IF expected_values = {} /\ output_values = {} THEN 1
     ELSE IF output_values = expected_values THEN 1
     ELSE 0

\* the scoring with the three expected fields read by subscript
EV_score_exc_RequiresFields(output, example) ==
  IF {"expected_type", "expected_entities", "expected_results"} \ (DOMAIN example) # {}
    THEN "KeyError"
  ELSE IF ~Iterable(DictGet(output, "entities", List(<<>>)))
       \/ ~Iterable(DictGet(example, "expected_entities", List(<<>>)))
       \/ ~Iterable(DictGet(example, "expected_results", List(<<>>)))
    THEN "TypeError"
    ELSE NoExc

\* the exception the scoring of one example raises, NoExc if none: a for
\* loop over None is a TypeError; the expected fields are read with
\* example.get, so a missing one raises nothing
EV_score_exc(output, example) ==
  IF ~Iterable(DictGet(output, "entities", List(<<>>)))
       \/ ~Iterable(DictGet(example, "expected_entities", List(<<>>)))
       \/ ~Iterable(DictGet(example, "expected_results", List(<<>>)))
    THEN "TypeError"
    ELSE NoExc

\* a quotient of the report: Python's true division, kept as a fraction
Ratio(n, d) == [num |-> n, den |-> d]

RECURSIVE Sum(_)
Sum(xs) == IF xs = <<>> THEN 0 ELSE Head(xs) + Sum(Tail(xs))

\* the end of evaluate: the average duration is guarded, the accuracies are
\* not, so an empty dataset raises ZeroDivisionError
EV_report(classified, matched, answered, total_questions, durations) ==
  IF total_questions = 0 THEN [exc |-> "ZeroDivisionError", value |-> None]
  ELSE [exc |-> NoExc,
        value |-> [classification_accuracy |-> Ratio(classified, total_questions),
                   entity_accuracy         |-> Ratio(matched, total_questions),
                   answer_accuracy         |-> Ratio(answered, total_questions),
                   average_query_duration_seconds |->
                     Ratio(Sum(durations), total_questions)]]

\* hashable values, the ones set() accepts as elements
Hashable(v) == v.t \in {"str", "None"}

\* `set(output.get("entities", [])) == set(example.get("expected_entities", []))`
EB_entities_match(output, example) ==
  Elements(DictGet(output, "entities", List(<<>>)))
    = Elements(DictGet(example, "expected_entities", List(<<>>)))

\* the flattening loop of the second evaluator: output_results_values, as
\* the collection of its elements
EB_results_values(output) ==
  LET results == DictGet(output, "results", None) IN
  IF ~Truthy(results) THEN {}
  ELSE UNION {
    IF item.t = "dict" THEN
      UNION { IF value.t = "list" THEN Elements(value)
              ELSE IF value.t = "dict" THEN
                UNION { IF nested_val.t = "list" THEN Elements(nested_val)
                        ELSE {nested_val} : nested_val \in DictValues(value) }
              ELSE {value}
              : value \in DictValues(item) }
    ELSE IF item.t = "list" THEN Elements(item)
    ELSE {item}
    : item \in Elements(results) }

\* `set(output_results_values) == set(example.get("expected_results", []))`
EB_answer_match(output, example) ==
  EB_results_values(output) = Elements(DictGet(example, "expected_results", List(<<>>)))

\* the exception the second evaluator's scoring raises, NoExc if none
EB_score_exc(output, example) ==
  LET entities == DictGet(output, "entities", List(<<>>))
      expected_entities == DictGet(example, "expected_entities", List(<<>>))
      expected_results  == DictGet(example, "expected_results", List(<<>>))
  IN IF ~Iterable(entities) \/ ~Iterable(expected_entities) \/ ~Iterable(expected_results)
       THEN "TypeError"
     ELSE IF \E v \in Elements(entities) \cup Elements(expected_entities)
                        \cup EB_results_values(output) \cup Elements(expected_results) :
               ~Hashable(v)
       THEN "TypeError"
     ELSE NoExc

\* the end of the second evaluator's evaluate: three unguarded divisions
EB_report(classified, matched, answered, total) ==
  IF total = 0 THEN [exc |-> "ZeroDivisionError", value |-> None]
  ELSE [exc |-> NoExc,
        value |-> [classification_accuracy |-> Ratio(classified, total),
                   entity_accuracy         |-> Ratio(matched, total),
                   answer_accuracy         |-> Ratio(answered, total)]]

\* ------------------------------------------------------------------ state
VARIABLES
  agent,     \* the class of the agent object
  status,    \* "idle" | "running" | "returned" | "raised": the answer_question call
  state,     \* the AgentState / WorkflowState of the current run (None before one)
  pending,   \* nodes of the compiled graph triggered for the current step
  writes,    \* states returned by the nodes already run in the current step
  assigned,  \* per node run so far in this call: the state keys it assigned
  visited,   \* nodes run so far in this call, in order
  calls,     \* collaborator calls made so far in this call, in order
  response,  \* the LLM response received by the node that ran last (None if none)
  result,    \* the dictionary returned by answer_question (None until then)
  exc,       \* the exception that escaped answer_question (NoExc if none)
  rerun,     \* TRUE in the first state of a call made on an agent object used before
  evaluator,       \* which WorkflowEvaluator runs ("none" while a pipeline is studied)
  dataset,         \* self.dataset, the loaded list of examples
  memory,          \* the evaluated agent's conversation_memory_enabled and memory_manager
  behaviours,      \* the outcomes the evaluated agent's workflow can have
  ev_pc,           \* position of evaluate: idle, conversations, examples, done, raised
  grouped_dataset, \* the (key, examples) items of grouped_dataset, in insertion order
  gi,              \* number of conversations entered
  ei,              \* number of examples run in the current conversation (in all, for EB)
  classification_correct,
  entity_correct,
  answer_correct,
  query_durations,
  events,          \* the calls made on the agent: clear_history, answer_question, invoke
  final_state,     \* the state in which the agent's workflow ended the last call
  report,          \* the dictionary returned by evaluate (None until then)
  ev_exc,          \* the exception that escaped evaluate (NoExc if none)
  normalized,      \* a string followed by the results of normalizing it again and again
  query_templates, \* TemplateQueryAgent.query_templates: template name -> query text
  graph_db,        \* the store behind TemplateQueryAgent.graph_db
  tq_history,      \* the get_* calls made so far, each with the store calls it made
  completed_exercises, \* the exercise ids the learner has completed
  recommendations  \* the calls of get_next_recommended_exercise: argument and result

pipeline ==
  <<agent, status, state, pending, writes, assigned, visited, calls, response, result, exc, rerun>>

evaluation ==
  <<evaluator, dataset, memory, behaviours, ev_pc, grouped_dataset, gi, ei,
    classification_correct, entity_correct, answer_correct, query_durations,
    events, final_state, report, ev_exc>>

\* the state of a TemplateQueryAgent and of the store it queries
template == <<query_templates, graph_db, tq_history>>

\* everything but the pipeline and the evaluation
\* a learner's progress through the practice exercises
progression == <<completed_exercises, recommendations>>

others == <<normalized, template, progression>>

vars == <<pipeline, evaluation, others>>

\* ------------------------------------------------------ TemplateQueryAgent
\* the templates built by __init__; a text is the sequence of its pieces, the
\* $parameter being a piece of its own
TQ_templates ==
  ("genes_for_disease" :>
      <<"MATCH (g:Gene)-[:LINKED_TO]->(d:Disease) WHERE toLower(d.disease_name) CONTAINS toLower(",
        "$disease", ") RETURN g.gene_name as gene, d.disease_name as disease LIMIT 20">>)
  @@ ("drugs_for_disease" :>
      <<"MATCH (dr:Drug)-[t:TREATS]->(d:Disease) WHERE toLower(d.disease_name) CONTAINS toLower(",
        "$disease", ") RETURN dr.drug_name as drug, ... ORDER BY CASE t.efficacy ... LIMIT 20">>)
  @@ ("protein_encoded_by_gene" :>
      <<"MATCH (g:Gene)-[:ENCODES]->(p:Protein) WHERE toLower(g.gene_name) CONTAINS toLower(",
        "$gene", ") RETURN g.gene_name as gene, p.protein_name as protein, ...">>)
  @@ ("diseases_for_protein" :>
      <<"MATCH (p:Protein)-[a:ASSOCIATED_WITH]->(d:Disease) WHERE toLower(p.protein_name) CONTAINS toLower(",
        "$protein", ") RETURN p.protein_name as protein, ... ORDER BY CASE a.confidence ... LIMIT 20">>)
  @@ ("drug_targets" :>
      <<"MATCH (dr:Drug)-[t:TARGETS]->(p:Protein) WHERE toLower(dr.drug_name) CONTAINS toLower(",
        "$drug", ") RETURN dr.drug_name as drug, p.protein_name as protein, ... LIMIT 20">>)
  @@ ("pathway_analysis" :>
      <<"MATCH path = (g:Gene)-[:ENCODES]->(p:Protein)-[:ASSOCIATED_WITH]->(d:Disease)<-[:TREATS]-(dr:Drug) WHERE toLower(d.disease_name) CONTAINS toLower(",
        "$disease", ") RETURN g.gene_name as gene, ... LIMIT 20">>)

\* the query methods: the template each one reads and the parameter it names
TQ_methods ==
  ("get_genes_for_disease" :> [template |-> "genes_for_disease", parameter |-> "disease"])
  @@ ("get_drugs_for_disease" :> [template |-> "drugs_for_disease", parameter |-> "disease"])
  @@ ("get_protein_for_gene" :> [template |-> "protein_encoded_by_gene", parameter |-> "gene"])
  @@ ("get_diseases_for_protein" :> [template |-> "diseases_for_protein", parameter |-> "protein"])
  @@ ("get_drug_targets" :> [template |-> "drug_targets", parameter |-> "drug"])
  @@ ("get_pathway_for_disease" :> [template |-> "pathway_analysis", parameter |-> "disease"])

\* the strings a caller passes: a name, and a text that is itself Cypher
TQ_terms == {<<"diabetes">>, <<"x'", ") RETURN 1 //">>}

\* the stores behind graph_db: one that finds nothing, one whose rows depend
\* on the query text and on the parameters it was given, one that is down
TQ_stores == {"empty", "echo", "down"}

\* GraphInterface.execute_query on a store: the rows, or the driver's exception
TQ_execute_query(store, cypher_query, parameters) ==
  CASE store = "empty" -> List(<<>>)
    [] store = "down" -> [t |-> "raise", s |-> <<"db down">>]
    [] OTHER -> List(<<Dict(("query" :> Str(cypher_query)) @@ ("parameters" :> parameters))>>)

\* a get_* method that splices the caller's string into the query text
TQ_get_Spliced(templates, store, method, term) ==
  LET m == TQ_methods[method]
      text == templates[m.template]
      cypher_query == <<text[1]>> \o term \o <<text[3]>>
      out == TQ_execute_query(store, cypher_query, None)
  IN [calls |-> <<[query |-> cypher_query, parameters |-> None, ret |-> out]>>,
      outcome |-> out,
      templates |-> templates]

\* a get_* method: one execute_query call with the method's template and the
\* caller's string as the parameter; its outcome is the call's outcome
TQ_get(templates, store, method, term) ==
  LET m == TQ_methods[method]
      cypher_query == templates[m.template]
      parameters == Dict(m.parameter :> Str(term))
      out == TQ_execute_query(store, cypher_query, parameters)
  IN [calls |-> <<[query |-> cypher_query, parameters |-> parameters, ret |-> out]>>,
      outcome |-> out,
      templates |-> templates]

\* no TemplateQueryAgent has been constructed
TemplateIdle ==
  /\ query_templates = TQ_templates
  /\ graph_db = "empty"
  /\ tq_history = <<>>

\* ---------------------------------------------------- exercise progression
\* EXERCISE_PROGRESSION, its items in insertion order
EXERCISE_PROGRESSION ==
  <<[level |-> "beginner", requirements |-> <<>>,
     exercises |-> <<"1.1", "1.2">>, next_level |-> "intermediate"],
    [level |-> "intermediate", requirements |-> <<"1.1", "1.2">>,
     exercises |-> <<"2.1", "2.2">>, next_level |-> "advanced"],
    [level |-> "advanced", requirements |-> <<"1.1", "1.2", "2.1", "2.2">>,
     exercises |-> <<"3.1", "3.2">>, next_level |-> "expert"],
    [level |-> "expert", requirements |-> <<"1.1", "1.2", "2.1", "2.2", "3.1", "3.2">>,
     exercises |-> <<"4.1", "4.2">>, next_level |-> "none"]>>

\* check_prerequisites; a list of completed ids is read by `in` only and is
\* held as the set of its elements
check_prerequisites(completed, target_level) ==
  LET items == {i \in DOMAIN EXERCISE_PROGRESSION : EXERCISE_PROGRESSION[i].level = target_level} IN
  IF items = {} THEN FALSE
  ELSE LET required == EXERCISE_PROGRESSION[CHOOSE i \in items : TRUE].requirements
       IN \A k \in DOMAIN required : required[k] \in completed

\* the least pair of a set of <<level index, exercise index>> pairs
FirstPair(pairs) ==
  CHOOSE p \in pairs : \A q \in pairs : p[1] < q[1] \/ (p[1] = q[1] /\ p[2] <= q[2])

DefaultExercise == "4.2"

\* get_next_recommended_exercise returning the first exercise of the first
\* open level, completed or not
get_next_recommended_exercise_FirstOfLevel(completed) ==
  LET found == {<<i, k>> \in (DOMAIN EXERCISE_PROGRESSION) \X (1..2) :
                  /\ k \in DOMAIN EXERCISE_PROGRESSION[i].exercises
                  /\ check_prerequisites(completed, EXERCISE_PROGRESSION[i].level)}
  IN IF found = {} THEN [exercise |-> DefaultExercise, default |-> TRUE]
     ELSE [exercise |-> EXERCISE_PROGRESSION[FirstPair(found)[1]].exercises[FirstPair(found)[2]],
           default |-> FALSE]

\* get_next_recommended_exercise: the first exercise not completed of the
\* first level whose prerequisites are met and that has one, else the default
get_next_recommended_exercise(completed) ==
  LET found == {<<i, k>> \in (DOMAIN EXERCISE_PROGRESSION) \X (1..2) :
                  /\ k \in DOMAIN EXERCISE_PROGRESSION[i].exercises
                  /\ check_prerequisites(completed, EXERCISE_PROGRESSION[i].level)
                  /\ EXERCISE_PROGRESSION[i].exercises[k] \notin completed}
  IN IF found = {} THEN [exercise |-> DefaultExercise, default |-> TRUE]
     ELSE [exercise |-> EXERCISE_PROGRESSION[FirstPair(found)[1]].exercises[FirstPair(found)[2]],
           default |-> FALSE]

\* the eight exercises
Exercises ==
  UNION {{EXERCISE_PROGRESSION[i].exercises[k] : k \in DOMAIN EXERCISE_PROGRESSION[i].exercises} :
           i \in DOMAIN EXERCISE_PROGRESSION}

\* no learner has started
ProgressionIdle ==
  /\ completed_exercises = {}
  /\ recommendations = <<>>

OthersIdle ==
  /\ normalized = <<>>
  /\ TemplateIdle
  /\ ProgressionIdle

Agents == {"LifeScienceAgent", "WorkflowAgent"}

EntryPoint(a) == IF a = "LifeScienceAgent" THEN "classify_question" ELSE "classify"

InitialState(a, question) ==
  IF a = "LifeScienceAgent" THEN LS_InitialState(question) ELSE WA_InitialState(question)

Successors(a, node, st) ==
  IF a = "LifeScienceAgent" THEN LS_successors(node, st) ELSE WA_successors(node, st)

\* no call of answer_question has been made on the agent object
PipelineIdle ==
  /\ status = "idle"
  /\ state = None
  /\ pending = {}
  /\ writes = <<>>
  /\ assigned = <<>>
  /\ visited = <<>>
  /\ calls = <<>>
  /\ response = None
  /\ result = None
  /\ exc = NoExc
  /\ rerun = FALSE

\* evaluate has not started on the given dataset and agent
EvaluationIdle(ev, ds, mem, bs) ==
  /\ evaluator = ev
  /\ dataset = ds
  /\ memory = mem
  /\ behaviours = bs
  /\ ev_pc = "idle"
  /\ grouped_dataset = <<>>
  /\ gi = 0
  /\ ei = 0
  /\ classification_correct = 0
  /\ entity_correct = 0
  /\ answer_correct = 0
  /\ query_durations = <<>>
  /\ events = <<>>
  /\ final_state = None
  /\ report = None
  /\ ev_exc = NoExc

NoMemory == [conversation_memory_enabled |-> FALSE, memory_manager |-> FALSE]

Init ==
  /\ agent \in Agents
  /\ PipelineIdle
  /\ EvaluationIdle("none", <<>>, NoMemory, {})
  /\ OthersIdle

\* answer_question starting from a state that keeps the previous run's error
answer_question_call_KeepsError ==
  /\ status # "running"
  /\ \E question \in Questions :
       state' = [InitialState(agent, question) EXCEPT
                   !.error = IF status = "idle" THEN None ELSE state.error]
  /\ status' = "running"
  /\ pending' = {EntryPoint(agent)}
  /\ writes' = <<>>
  /\ assigned' = <<>>
  /\ visited' = <<>>
  /\ calls' = <<>>
  /\ response' = None
  /\ result' = None
  /\ exc' = NoExc
  /\ rerun' = (status # "idle")
  /\ UNCHANGED <<agent, evaluation, others>>

\* answer_question, up to workflow.invoke(initial_state)
answer_question_call ==
  /\ status # "running"
  /\ \E question \in Questions : state' = InitialState(agent, question)
  /\ status' = "running"
  /\ pending' = {EntryPoint(agent)}
  /\ writes' = <<>>
  /\ assigned' = <<>>
  /\ visited' = <<>>
  /\ calls' = <<>>
  /\ response' = None
  /\ result' = None
  /\ exc' = NoExc
  /\ rerun' = (status # "idle")
  /\ UNCHANGED <<agent, evaluation, others>>

\* An exception leaves the node, workflow.invoke and answer_question.
Abort(e) ==
  /\ status' = "raised"
  /\ exc' = e
  /\ pending' = {}
  /\ writes' = <<>>
  /\ UNCHANGED <<state, result>>

\* the keys a node has assigned: those whose value in the state it returns is
\* not the value in the state it was given (every key starts as None and no
\* node assigns None)
AssignedKeys(given, returned) == {k \in DOMAIN returned : returned[k] # given[k]}

\* The graph runtime after `node` has run with outcome `out`.  Every key of
\* the state is a last-value channel and every node returns the whole state:
\* a step in which one node ran stores that node's state and triggers its
\* successors; a step in which two nodes ran has two values for each key,
\* which the runtime rejects with InvalidUpdateError.
Step(node, out, resp) ==
  /\ status = "running"
  /\ node \in pending
  /\ visited' = Append(visited, node)
  /\ calls' = calls \o out.calls
  /\ response' = IF \E i \in 1..Len(out.calls) : out.calls[i].callee = "messages.create"
                   THEN resp ELSE None
  /\ rerun' = FALSE
  /\ assigned' = IF out.exc # NoExc THEN assigned
                  ELSE Append(assigned, [node |-> node, keys |-> AssignedKeys(state, out.st)])
  /\ UNCHANGED <<agent, evaluation, others>>
  /\ IF out.exc # NoExc THEN Abort(out.exc)
     ELSE LET ws == Append(writes, [node |-> node, st |-> out.st]) IN
          IF pending # {node}
            THEN /\ pending' = pending \ {node}
                 /\ writes' = ws
                 /\ UNCHANGED <<status, state, result, exc>>
          ELSE IF Len(ws) > 1 THEN Abort("InvalidUpdateError")
          ELSE /\ state' = out.st
               /\ pending' = Successors(agent, node, out.st)
               /\ writes' = <<>>
               /\ UNCHANGED <<status, result, exc>>

\* ------------------------------------------------ LifeScienceAgent nodes
LS_classify ==
  /\ agent = "LifeScienceAgent"
  /\ \E resp \in Responses(LabelTexts) :
       Step("classify_question", LS_classify_question(state, resp), resp)

LS_extract ==
  /\ agent = "LifeScienceAgent"
  /\ \E resp \in Responses(EntityTexts) :
       Step("extract_entities", LS_extract_entities(state, resp), resp)

LS_generate ==
  /\ agent = "LifeScienceAgent"
  /\ \E resp \in Responses(QueryTexts) :
       Step("generate_cypher", LS_generate_cypher_query(state, resp), resp)

LS_execute ==
  /\ agent = "LifeScienceAgent"
  /\ \E valid \in BOOLEAN, dbres \in DbOutcomes :
       Step("execute_query", LS_execute_query(state, valid, dbres), None)

LS_format ==
  /\ agent = "LifeScienceAgent"
  /\ \E resp \in Responses(AnswerTexts) :
       Step("format_response", LS_format_response(state, resp), resp)

LS_error ==
  /\ agent = "LifeScienceAgent"
  /\ Step("handle_error", LS_handle_error(state), None)

\* --------------------------------------------------- WorkflowAgent nodes
WA_classify ==
  /\ agent = "WorkflowAgent"
  /\ \E resp \in Responses(LabelTexts) :
       Step("classify", WA_classify_question(state, resp), resp)

WA_extract ==
  /\ agent = "WorkflowAgent"
  /\ \E resp \in Responses(EntityTexts) :
       Step("extract", WA_extract_entities(state, resp), resp)

WA_generate ==
  /\ agent = "WorkflowAgent"
  /\ \E resp \in Responses(QueryTexts) :
       Step("generate", WA_generate_query(state, resp), resp)

WA_execute ==
  /\ agent = "WorkflowAgent"
  /\ \E dbres \in DbOutcomes :
       Step("execute", WA_execute_query(state, dbres), None)

WA_format ==
  /\ agent = "WorkflowAgent"
  /\ \E resp \in Responses(AnswerTexts) :
       Step("format", WA_format_answer(state, resp), resp)

\* answer_question, after workflow.invoke has returned the final state
answer_question_return ==
  /\ status = "running"
  /\ pending = {}
  /\ LET r == IF agent = "LifeScienceAgent" THEN LS_result(state) ELSE WA_result(state) IN
     IF r.exc # NoExc
       THEN /\ status' = "raised"
            /\ exc' = r.exc
            /\ UNCHANGED result
       ELSE /\ status' = "returned"
            /\ result' = r.value
            /\ UNCHANGED exc
  /\ UNCHANGED <<agent, state, pending, writes, assigned, visited, calls, response, rerun, evaluation, others>>

Next ==
  \/ answer_question_call
  \/ LS_classify
  \/ LS_extract
  \/ LS_generate
  \/ LS_execute
  \/ LS_format
  \/ LS_error
  \/ WA_classify
  \/ WA_extract
  \/ WA_generate
  \/ WA_execute
  \/ WA_format
  \/ answer_question_return

Spec == Init /\ [][Next]_vars

\* ------------------------------------------------------- evaluation inputs
\* an absent key of an example
Absent == [t |-> "absent"]

EmptyDict == [k \in {} |-> None]

Field(k, v) == IF v = Absent THEN EmptyDict ELSE (k :> v)

\* the i-th example of a dataset; its question is qi
Example(i, conversation_id, expected_type, expected_entities, expected_results) ==
  ("question" :> Str(<<"q">> \o Decimal(i)))
    @@ Field("conversation_id", conversation_id)
    @@ Field("expected_type", expected_type)
    @@ Field("expected_entities", expected_entities)
    @@ Field("expected_results", expected_results)

\* a row of the database with one column
Row(v) == Dict("name" :> v)

\* a final state of the agent's workflow (user_question is set by the call)
FinalState(question_type, entities, rows) ==
  [WA_InitialState(<<>>) EXCEPT !.question_type = question_type,
                                !.entities = entities,
                                !.cypher_query = Str(<<"query">>),
                                !.results = List(rows),
                                !.final_answer = Str(<<"answer">>)]

Ends(fs) == [exc |-> NoExc, state |-> fs]
Fails(e) == [exc |-> e, state |-> None]

Evaluators == {"evaluation_metrics", "src.agents.evaluation_metrics"}

Memories == [conversation_memory_enabled : BOOLEAN, memory_manager : BOOLEAN]

\* time.time() after the call minus time.time() before it, in seconds
Durations == {1, 2}

TextA == Str(<<"a">>)
TextB == Str(<<"b">>)

\* datasets of the grouping and counting runs: the conversation ids vary
ConversationIds == {Absent, Str(<<"c">>), Str(<<SinglePrefix, "0">>)}

LoopExample(i, conversation_id) ==
  Example(i, conversation_id, TextA, List(<<TextA>>), List(<<TextA, TextB>>))

LoopDatasets ==
  UNION {{[i \in 1..n |-> LoopExample(i, ids[i])] : ids \in [1..n -> ConversationIds]}
           : n \in 0..MaxExamples}

\* the agent of these runs answers with two rows, with four rows holding the
\* same two values, with nothing that matches, or raises
LoopBehaviours ==
  {Ends(FinalState(TextA, List(<<TextA>>), <<Row(TextA), Row(TextB)>>)),
   Ends(FinalState(TextA, List(<<TextA>>), <<Row(TextA), Row(TextA), Row(TextA), Row(TextB)>>)),
   Ends(FinalState(TextB, List(<<>>), <<>>)),
   Fails("APIError")}

\* datasets of the scoring runs: one example, one expected field varies
EntityNames == {Str(<<"a">>), Str(<<"A">>), Str(<<"b">>)}
EntityLists == {List(xs) : xs \in SeqsUpTo(EntityNames, MaxListLen)}
ResultLists == {List(xs) : xs \in SeqsUpTo({TextA, TextB}, MaxListLen)}

ScoreExamples ==
  {Example(1, Absent, t, List(<<TextA>>), List(<<TextA>>)) : t \in {Absent, TextA}}
    \cup {Example(1, Absent, TextA, e, List(<<TextA>>)) : e \in EntityLists \cup {Absent}}
    \cup {Example(1, Absent, TextA, List(<<TextA>>), r) : r \in ResultLists \cup {Absent}}

\* a record of the dataset file that has no "question"
WithoutQuestion(example) == [k \in (DOMAIN example) \ {"question"} |-> example[k]]

PlainExample == Example(1, Absent, TextA, List(<<TextA>>), List(<<TextA>>))

ScoreDatasets ==
  {<<example>> : example \in ScoreExamples}
    \cup {<<WithoutQuestion(PlainExample)>>, <<PlainExample, WithoutQuestion(PlainExample)>>}

\* rows whose values are not scalars, and an item that is not a dictionary
SpecialRows ==
  {<<Row(List(<<TextA, TextB>>))>>, <<Row(Dict("gene" :> TextA))>>, <<Row(None)>>, <<TextA>>}

\* the agent of the scoring runs: one field of its final state varies
ScoreBehaviours ==
  {Ends(FinalState(t, List(<<TextA>>), <<Row(TextA)>>)) : t \in {TextA, Str(<<"A">>), Str(<<"a", " ">>), None}}
    \cup {Ends(FinalState(TextA, e, <<Row(TextA)>>)) : e \in EntityLists}
    \cup {Ends(FinalState(TextA, List(<<TextA>>), rows)) :
            rows \in SeqsUpTo({Row(TextA), Row(TextB)}, MaxRows) \cup SpecialRows}

\* ------------------------------------------------------ evaluation actions
ClearHistory == [op |-> "clear_history", arg |-> None]
AgentCall(op, question) == [op |-> op, arg |-> question]

\* `self.agent.conversation_memory_enabled and hasattr(self.agent, 'memory_manager')`
EV_clears_memory(agent_memory) ==
  agent_memory.conversation_memory_enabled /\ agent_memory.memory_manager

\* the exception is caught and evaluate ends with an empty report
EvalAbort_ReturnsReport(e) ==
  /\ ev_pc' = "done"
  /\ ev_exc' = NoExc
  /\ report' = EmptyDict
  /\ UNCHANGED <<gi, ei>>

\* an exception leaves evaluate
EvalAbort(e) ==
  /\ ev_pc' = "raised"
  /\ ev_exc' = e
  /\ UNCHANGED <<gi, ei, report>>

\* evaluate of evaluation_metrics.py up to the loop over the conversations:
\* the counters, total_questions and the grouping loop
EV_evaluate_begin ==
  /\ evaluator = "evaluation_metrics"
  /\ ev_pc = "idle"
  /\ classification_correct' = 0
  /\ entity_correct' = 0
  /\ answer_correct' = 0
  /\ query_durations' = <<>>
  /\ grouped_dataset' = EV_group(dataset, 1, <<>>)
  /\ gi' = 0
  /\ ei' = 0
  /\ ev_pc' = "conversations"
  /\ UNCHANGED <<pipeline, others, evaluator, dataset, memory, behaviours, events,
                 final_state, report, ev_exc>>

\* the head of the outer loop: the next conversation, its memory cleared
EV_conversation ==
  /\ evaluator = "evaluation_metrics"
  /\ ev_pc = "conversations"
  /\ gi < Len(grouped_dataset)
  /\ gi' = gi + 1
  /\ ei' = 0
  /\ events' = IF EV_clears_memory(memory) THEN Append(events, ClearHistory) ELSE events
  /\ ev_pc' = "examples"
  /\ UNCHANGED <<pipeline, others, evaluator, dataset, memory, behaviours, grouped_dataset,
                 classification_correct, entity_correct, answer_correct,
                 query_durations, final_state, report, ev_exc>>

\* the body of the inner loop: one example is run, timed and scored
EV_example ==
  /\ evaluator = "evaluation_metrics"
  /\ ev_pc = "examples"
  /\ LET example == grouped_dataset[gi].examples[ei + 1]
         more    == ei + 1 < Len(grouped_dataset[gi].examples)
     IN
     IF "question" \notin DOMAIN example
       THEN /\ EvalAbort("KeyError")
            /\ UNCHANGED <<events, final_state, query_durations,
                           classification_correct, entity_correct, answer_correct>>
       ELSE \E b \in behaviours, duration \in Durations :
         LET question == example["question"]
             fs       == [b.state EXCEPT !.user_question = question]
             r        == WA_result(fs)
             output   == r.value
             cls      == IF EV_classification_match(output, example) THEN 1 ELSE 0
         IN
         /\ events' = Append(events, AgentCall("answer_question", question))
         /\ IF b.exc # NoExc
              THEN /\ EvalAbort(b.exc)
                   /\ final_state' = None
                   /\ UNCHANGED <<query_durations, classification_correct,
                                  entity_correct, answer_correct>>
            ELSE IF r.exc # NoExc
              THEN /\ EvalAbort(r.exc)
                   /\ final_state' = fs
                   /\ UNCHANGED <<query_durations, classification_correct,
                                  entity_correct, answer_correct>>
            ELSE
              /\ final_state' = fs
              /\ query_durations' = Append(query_durations, duration)
              /\ classification_correct' = classification_correct + cls
              /\ IF EV_score_exc(output, example) # NoExc
                   THEN /\ EvalAbort(EV_score_exc(output, example))
                        /\ UNCHANGED <<entity_correct, answer_correct>>
                   ELSE /\ entity_correct' =
                             entity_correct + IF EV_entities_match(output, example) THEN 1 ELSE 0
                        /\ answer_correct' = answer_correct + EV_answer_increment(output, example)
                        /\ ei' = ei + 1
                        /\ ev_pc' = IF more THEN "examples" ELSE "conversations"
                        /\ UNCHANGED <<gi, report, ev_exc>>
  /\ UNCHANGED <<pipeline, others, evaluator, dataset, memory, behaviours, grouped_dataset>>

\* the end of evaluate: the average duration and the report
EV_evaluate_return ==
  /\ evaluator = "evaluation_metrics"
  /\ ev_pc = "conversations"
  /\ gi = Len(grouped_dataset)
  /\ LET r == EV_report(classification_correct, entity_correct, answer_correct,
                        Len(dataset), query_durations)
     IN IF r.exc # NoExc
          THEN EvalAbort(r.exc)
          ELSE /\ report' = r.value
               /\ ev_pc' = "done"
               /\ UNCHANGED <<gi, ei, ev_exc>>
  /\ UNCHANGED <<pipeline, others, evaluator, dataset, memory, behaviours, grouped_dataset,
                 classification_correct, entity_correct, answer_correct,
                 query_durations, events, final_state>>

\* evaluate of src/agents/evaluation_metrics.py up to its loop
EB_evaluate_begin ==
  /\ evaluator = "src.agents.evaluation_metrics"
  /\ ev_pc = "idle"
  /\ classification_correct' = 0
  /\ entity_correct' = 0
  /\ answer_correct' = 0
  /\ ei' = 0
  /\ ev_pc' = "examples"
  /\ UNCHANGED <<pipeline, others, evaluator, dataset, memory, behaviours, grouped_dataset, gi,
                 query_durations, events, final_state, report, ev_exc>>

\* the body of its loop: the workflow is invoked on a new state and the
\* final state is scored
EB_example ==
  /\ evaluator = "src.agents.evaluation_metrics"
  /\ ev_pc = "examples"
  /\ ei < Len(dataset)
  /\ LET example == dataset[ei + 1] IN
     IF "question" \notin DOMAIN example
       THEN /\ EvalAbort("KeyError")
            /\ UNCHANGED <<events, final_state,
                           classification_correct, entity_correct, answer_correct>>
       ELSE \E b \in behaviours :
         LET question == example["question"]
             output   == [b.state EXCEPT !.user_question = question]
             cls      == IF EV_classification_match(output, example) THEN 1 ELSE 0
         IN
         /\ events' = Append(events, AgentCall("workflow.invoke", question))
         /\ IF b.exc # NoExc
              THEN /\ EvalAbort(b.exc)
                   /\ final_state' = None
                   /\ UNCHANGED <<classification_correct, entity_correct, answer_correct>>
            ELSE
              /\ final_state' = output
              /\ classification_correct' = classification_correct + cls
              /\ IF EB_score_exc(output, example) # NoExc
                   THEN /\ EvalAbort(EB_score_exc(output, example))
                        /\ UNCHANGED <<entity_correct, answer_correct>>
                   ELSE /\ entity_correct' =
                             entity_correct + IF EB_entities_match(output, example) THEN 1 ELSE 0
                        /\ answer_correct' =
                             answer_correct + IF EB_answer_match(output, example) THEN 1 ELSE 0
                        /\ ei' = ei + 1
                        /\ UNCHANGED <<gi, ev_pc, report, ev_exc>>
  /\ UNCHANGED <<pipeline, others, evaluator, dataset, memory, behaviours, grouped_dataset,
                 query_durations>>

\* the end of its evaluate
EB_evaluate_return ==
  /\ evaluator = "src.agents.evaluation_metrics"
  /\ ev_pc = "examples"
  /\ ei = Len(dataset)
  /\ LET r == EB_report(classification_correct, entity_correct, answer_correct, Len(dataset))
     IN IF r.exc # NoExc
          THEN EvalAbort(r.exc)
          ELSE /\ report' = r.value
               /\ ev_pc' = "done"
               /\ UNCHANGED <<gi, ei, ev_exc>>
  /\ UNCHANGED <<pipeline, others, evaluator, dataset, memory, behaviours, grouped_dataset,
                 classification_correct, entity_correct, answer_correct,
                 query_durations, events, final_state>>

EvalNext ==
  \/ EV_evaluate_begin
  \/ EV_conversation
  \/ EV_example
  \/ EV_evaluate_return
  \/ EB_evaluate_begin
  \/ EB_example
  \/ EB_evaluate_return

\* evaluation runs over datasets whose conversation ids vary
InitEvaluate ==
  /\ agent = "WorkflowAgent"
  /\ PipelineIdle
  /\ \E ev \in Evaluators, ds \in LoopDatasets, mem \in Memories :
       EvaluationIdle(ev, ds, mem, LoopBehaviours)
  /\ OthersIdle

SpecEvaluate == InitEvaluate /\ [][EvalNext]_vars

\* evaluation runs over one example whose expected fields vary
InitScore ==
  /\ agent = "WorkflowAgent"
  /\ PipelineIdle
  /\ \E ev \in Evaluators, ds \in ScoreDatasets :
       EvaluationIdle(ev, ds, NoMemory, ScoreBehaviours)
  /\ OthersIdle

SpecScore == InitScore /\ [][EvalNext]_vars

\* ----------------------------------------------------- _normalize_string
\* the characters of the strings to normalize: letters of both cases, the
\* space and the two separators the function replaces
NameChars == {"a", "A", " ", "_", "-"}

\* _normalize_string applied to the last string it was given or has returned
normalize_string ==
  /\ normalized # <<>>
  /\ Len(normalized) < 3
  /\ normalized' = Append(normalized, EV_normalize_string(Str(normalized[Len(normalized)])))
  /\ UNCHANGED <<pipeline, evaluation, template, progression>>

InitNormalize ==
  /\ agent = "WorkflowAgent"
  /\ PipelineIdle
  /\ EvaluationIdle("none", <<>>, NoMemory, {})
  /\ \E s \in SeqsUpTo(NameChars, MaxNameLen) : normalized = <<s>>
  /\ TemplateIdle
  /\ ProgressionIdle

SpecNormalize == InitNormalize /\ [][normalize_string]_vars

\* ------------------------------------------------------ TemplateQueryAgent
\* a caller calls one of the query methods with a string
TQ_call ==
  /\ Len(tq_history) < MaxTemplateCalls
  /\ \E method \in DOMAIN TQ_methods, term \in TQ_terms :
       LET r == TQ_get(query_templates, graph_db, method, term)
       IN /\ tq_history' = Append(tq_history, [method |-> method, term |-> term,
                                               calls |-> r.calls, outcome |-> r.outcome])
          /\ query_templates' = r.templates
  /\ UNCHANGED <<pipeline, evaluation, normalized, graph_db, progression>>

\* a TemplateQueryAgent constructed on one of the stores
InitTemplate ==
  /\ agent = "WorkflowAgent"
  /\ PipelineIdle
  /\ EvaluationIdle("none", <<>>, NoMemory, {})
  /\ normalized = <<>>
  /\ query_templates = TQ_templates
  /\ graph_db \in TQ_stores
  /\ tq_history = <<>>
  /\ ProgressionIdle

SpecTemplate == InitTemplate /\ [][TQ_call]_vars

\* --------------------------------------------- the generate stage alone
\* the lines of a generated query
QueryLines == {<<"MATCH (g:Gene)-[:LINKED_TO]->(d:Disease)">>, <<"WHERE d.disease_name = 'x'">>, <<"RETURN g.gene_name">>}

\* what a generator may write before the opening fence
Preambles == {<<>>, <<"Here is the query:", "\n">>}

\* the language tag after the opening fence
LanguageTags == {<<>>, <<"cypher">>}

\* a response that wraps the lines of a query in a fenced code block
Fenced(preamble, tag, lines) ==
  preamble \o <<Fence>> \o tag \o <<"\n">> \o Join(lines, "\n") \o <<"\n", Fence>>

FencedQueries == SeqsUpTo(QueryLines, MaxQueryLines) \ {<<>>}

FencedResponses ==
  {[kind |-> "text", text |-> Fenced(preamble, tag, lines)] :
     preamble \in Preambles, tag \in LanguageTags, lines \in FencedQueries}

\* the outcome of the first two stages of a run on a question, the
\* classifier answering 'a' and the extractor '[]'
Classified(a, question) ==
  IF a = "LifeScienceAgent"
    THEN LS_classify_question(InitialState(a, question), [kind |-> "text", text |-> <<"a">>])
    ELSE WA_classify_question(InitialState(a, question), [kind |-> "text", text |-> <<"a">>])

Extracted(a, question) ==
  IF a = "LifeScienceAgent"
    THEN LS_extract_entities(Classified(a, question).st, [kind |-> "text", text |-> <<"[", "]">>])
    ELSE WA_extract_entities(Classified(a, question).st, [kind |-> "text", text |-> <<"[", "]">>])

LS_generate_fenced ==
  /\ agent = "LifeScienceAgent"
  /\ \E resp \in FencedResponses :
       Step("generate_cypher", LS_generate_cypher_query(state, resp), resp)

WA_generate_fenced ==
  /\ agent = "WorkflowAgent"
  /\ \E resp \in FencedResponses :
       Step("generate", WA_generate_query(state, resp), resp)

\* a run that has classified its question and extracted the entities
InitGenerate ==
  /\ agent \in Agents
  /\ \E question \in Questions :
       /\ state = Extracted(agent, question).st
       /\ calls = Classified(agent, question).calls \o Extracted(agent, question).calls
       /\ assigned = <<[node |-> EntryPoint(agent), keys |-> {"question_type"}],
                       [node |-> IF agent = "LifeScienceAgent" THEN "extract_entities" ELSE "extract",
                        keys |-> {"entities"}]>>
  /\ visited = <<assigned[1].node, assigned[2].node>>
  /\ pending = Successors(agent, visited[2], state)
  /\ status = "running"
  /\ writes = <<>>
  /\ response = [kind |-> "text", text |-> <<"[", "]">>]
  /\ result = None
  /\ exc = NoExc
  /\ rerun = FALSE
  /\ EvaluationIdle("none", <<>>, NoMemory, {})
  /\ OthersIdle

SpecGenerate == InitGenerate /\ [][LS_generate_fenced \/ WA_generate_fenced]_vars

\* ---------------------------------------------------- exercise progression
\* the learner asks for a recommendation and completes the exercise returned
CompleteRecommended ==
  /\ Len(recommendations) < MaxRecommendations
  /\ LET r == get_next_recommended_exercise(completed_exercises) IN
       /\ recommendations' = Append(recommendations,
                                    [given |-> completed_exercises,
                                     exercise |-> r.exercise, default |-> r.default])
       /\ completed_exercises' = completed_exercises \cup {r.exercise}
  /\ UNCHANGED <<pipeline, evaluation, normalized, template>>

\* a learner who has completed any of the exercises, in any order
InitProgression ==
  /\ agent = "WorkflowAgent"
  /\ PipelineIdle
  /\ EvaluationIdle("none", <<>>, NoMemory, {})
  /\ normalized = <<>>
  /\ TemplateIdle
  /\ completed_exercises \in SUBSET Exercises
  /\ recommendations = <<>>

SpecProgression == InitProgression /\ [][CompleteRecommended]_vars

TypeOK ==
  /\ agent \in Agents
  /\ status \in {"idle", "running", "returned", "raised"}

\* ---------------------------------------------------------------- claims
Range(f) == {f[i] : i \in DOMAIN f}

Finished == status \in {"returned", "raised"}

IsLS == agent = "LifeScienceAgent"
IsWA == agent = "WorkflowAgent"

ExecuteNode == IF IsLS THEN "execute_query" ELSE "execute"
FormatNode  == IF IsLS THEN "format_response" ELSE "format"

ExecuteRan == ExecuteNode \in Range(visited)

CallsTo(callee) == SelectSeq(calls, LAMBDA c : c.callee = callee)
LLMCallsOf(node) ==
  SelectSeq(calls, LAMBDA c : c.callee = "messages.create" /\ c.node = node)

\* graph_db.execute_query was called in this run and returned rows
RowsReturned == \E c \in Range(CallsTo("execute_query")) : c.ret.t = "list"

\* the query stage failed: no query was generated, validation refused it, or
\* graph_db.execute_query raised
LS_QueryStageFailed == ExecuteRan /\ ~RowsReturned
WA_QueryStageFailed ==
  ExecuteRan /\ \E c \in Range(CallsTo("execute_query")) : c.ret.t = "raise"

\* C1: answer_question never raises to its caller; whatever the
\* collaborators do (each LLM call returns or raises, validate_query answers
\* true or false, graph_db.execute_query returns rows or raises), the call
\* returns a dictionary whose 'answer' is a text.
C1_NeverRaises ==
  /\ status # "raised"
  /\ status = "returned" => result.answer.t = "str"

\* C2: LifeScienceAgent: every run whose query stage failed returns a result
\* with 'error' non-null, 'answer' containing that error text and
\* 'results_count' = 0.
C2_QueryFailureReported ==
  (IsLS /\ Finished /\ LS_QueryStageFailed) =>
     /\ status = "returned"
     /\ result.error.t = "str"
     /\ Contains(result.answer.s, result.error.s)
     /\ result.results_count = 0

\* C3: LifeScienceAgent: after execute_query exactly one final node runs,
\* handle_error iff 'error' is set and format_response iff it is not;
\* format_response never runs in a run whose execute_query set 'error'.
C3_OneFinalNode ==
  (IsLS /\ ExecuteRan) =>
     /\ "format_response" \in Range(visited) => state.error = None
     /\ "handle_error" \in Range(visited) => state.error # None
     /\ ~({"format_response", "handle_error"} \subseteq Range(visited))

\* the stage order of one run
StageOrder ==
  IF IsLS
    THEN {<<"classify_question", "extract_entities", "generate_cypher",
            "execute_query", final>> : final \in {"format_response", "handle_error"}}
    ELSE {<<"classify", "extract", "generate", "execute", "format">>}

\* C4: one run visits classify, extract, generate, execute, format, END in
\* that order, every stage at most once, at most one LLM call per stage, at
\* most one validate_query and one execute_query, and always reaches END.
C4_FixedOrderReachesEnd ==
  /\ \E order \in StageOrder :
       Len(visited) <= Len(order) /\ visited = SubSeq(order, 1, Len(visited))
  /\ \A node \in Range(visited) : Len(LLMCallsOf(node)) <= 1
  /\ Len(CallsTo("validate_query")) <= 1
  /\ Len(CallsTo("execute_query")) <= 1
  /\ Finished => (status = "returned" /\ visited \in StageOrder)

\* the rows of the current state, under either agent's field name
StateRows == IF IsLS THEN state.query_results ELSE state.results

NoInfoMsg == IF IsLS THEN NoInfoLS ELSE NoInfoWA

QueryStageFailed == IF IsLS THEN LS_QueryStageFailed ELSE WA_QueryStageFailed

\* C5: in every run where the query stage did not fail and the row set is
\* empty, the run returns, the answer is the agent's fixed 'no information
\* found' message, the format stage makes no LLM call and the run makes
\* exactly three LLM calls (classify, extract, generate).
C5_EmptyRowsShortCircuit ==
  (Finished /\ ExecuteRan /\ ~QueryStageFailed /\ StateRows = List(<<>>)) =>
     /\ status = "returned"
     /\ result.answer = Str(NoInfoMsg)
     /\ state.final_answer = Str(NoInfoMsg)
     /\ LLMCallsOf(FormatNode) = <<>>
     /\ Len(CallsTo("messages.create")) = 3

\* a LifeScienceAgent run whose query returned no rows has returned
C5_Witness ==
  /\ IsLS
  /\ status = "returned"
  /\ \E c \in Range(CallsTo("execute_query")) : c.ret = List(<<>>)
  /\ result.answer = Str(NoInfoLS)

\* C6: LifeScienceAgent.execute_query calls graph_db.execute_query only with
\* a non-empty query for which validate_query returned true earlier in the
\* same run; when the query is missing or validation returns false,
\* graph_db.execute_query is not called, 'error' is a message and
\* query_results stays unset.
C6_ExecuteOnlyValidated ==
  IsLS =>
    /\ \A i \in 1..Len(calls) :
         calls[i].callee = "execute_query" =>
           /\ Truthy(calls[i].arg)
           /\ \E j \in 1..(i - 1) :
                /\ calls[j].callee = "validate_query"
                /\ calls[j].arg = calls[i].arg
                /\ calls[j].ret.b
    /\ (ExecuteRan /\ (~Truthy(state.cypher_query)
                       \/ \E c \in Range(CallsTo("validate_query")) : ~c.ret.b)) =>
         /\ CallsTo("execute_query") = <<>>
         /\ state.error \in {Str(NoQueryMsg), Str(InvalidMsg)}
         /\ state.query_results = None

\* execute_query has run on a query that validate_query refused
C6_Witness ==
  /\ IsLS
  /\ ExecuteRan
  /\ \E c \in Range(CallsTo("validate_query")) : ~c.ret.b
  /\ state.error = Str(InvalidMsg)

\* C7: WorkflowAgent.execute_query treats a missing query as a failure: when
\* cypher_query is None or empty after the generate stage, the run ends with
\* 'error' set and the answer is the error-template message, not the 'no
\* information found' message.
C7_MissingQueryIsFailure ==
  (IsWA /\ status = "returned" /\ ~Truthy(result.cypher_query)) =>
     /\ Truthy(result.error)
     /\ result.answer = Str(SorryPrefix \o result.error.s)
     /\ result.answer # Str(NoInfoWA)

\* C7 as amended: when cypher_query is empty after the generate stage,
\* WorkflowAgent.execute_query makes no graph_db call, stores an empty result
\* list and leaves 'error' unset; the run returns the 'no information found'
\* message with results_count 0.
C7_MissingQueryIsEmptyResult ==
  (IsWA /\ ExecuteRan /\ ~Truthy(state.cypher_query)) =>
     /\ CallsTo("execute_query") = <<>>
     /\ state.results = List(<<>>)
     /\ state.error = None
     /\ Finished =>
          /\ status = "returned"
          /\ result.error = None
          /\ result.results_count = 0
          /\ result.answer = Str(NoInfoWA)

\* a WorkflowAgent run with an empty query has returned
C7_Witness ==
  /\ IsWA
  /\ status = "returned"
  /\ result.cypher_query = Str(<<>>)
  /\ "execute" \in Range(visited)

ExtractNode  == IF IsLS THEN "extract_entities" ELSE "extract"
GenerateNode == IF IsLS THEN "generate_cypher" ELSE "generate"
ClassifyNode == IF IsLS THEN "classify_question" ELSE "classify"

LastVisited == IF visited = <<>> THEN "" ELSE visited[Len(visited)]

\* a response text that cannot be parsed: the text is not JSON and holds no
\* bracketed span that is JSON (plain words, truncated JSON, no bracketed list)
Unparseable(text) ==
  LET t == Strip(text)
      m == BracketMatch(t)
  IN ~json_loads(t).ok /\ (m.found => ~json_loads(m.text).ok)

C9_ClassifyFallback ==
  (LastVisited = ClassifyNode /\ response.kind # "raise") =>
     LET label == IF response.kind = "text" THEN Strip(response.text) ELSE <<>> IN
     /\ status = "running"
     /\ state.question_type = IF label # <<>> THEN Str(label) ELSE Str(General)

\* the number of rows graph_db.execute_query returned in this run
RowsReturnedCount ==
  IF RowsReturned
    THEN Len((CHOOSE c \in Range(CallsTo("execute_query")) : c.ret.t = "list").ret.items)
    ELSE 0

\* result fields that equal the final state's fields
ResultMirrorsState ==
  /\ result.answer = state.final_answer
  /\ result.entities = state.entities
  /\ result.cypher_query = state.cypher_query
  /\ result.error = state.error
  /\ result.results_count = RowsReturnedCount

\* C10: the result of answer_question exposes answer, category
\* (question_type), entities, generated query, row count and failure, each
\* equal to the field of the final state, the row count being the number of
\* rows graph_db.execute_query returned in the run.
C10_ResultExposesAllFields ==
  status = "returned" =>
     /\ {"answer", "question_type", "entities", "cypher_query", "results_count", "error"}
          \subseteq DOMAIN result
     /\ ResultMirrorsState
     /\ result.question_type = state.question_type

\* C10 as amended: the result exposes answer, entities, generated query, row
\* count and failure, each equal to the field of the final state (the row
\* count being the number of rows graph_db.execute_query returned, 0 when it
\* returned none); WorkflowAgent also exposes the category, LifeScienceAgent
\* does not.
C10_ResultFields ==
  status = "returned" =>
     /\ {"answer", "entities", "cypher_query", "results_count", "error"}
          \subseteq DOMAIN result
     /\ ResultMirrorsState
     /\ IsWA => result.question_type = state.question_type
     /\ IsLS => "question_type" \notin DOMAIN result

\* a WorkflowAgent run has returned a result that counts more rows than the
\* raw_results excerpt holds
C10_Witness ==
  /\ IsWA
  /\ status = "returned"
  /\ result.results_count = 4
  /\ result.question_type = Str(<<"a">>)

\* the fields a run fills in, under either agent's field names
RunFields ==
  {"question_type", "entities", "cypher_query", "final_answer", "error",
   IF IsLS THEN "query_results" ELSE "results"}

\* the error texts the execute stage of this run can have produced
ErrorsOfThisRun ==
  {Str(NoQueryMsg), Str(InvalidMsg)}
    \cup {Str(c.ret.s) : c \in {d \in Range(CallsTo("execute_query")) : d.ret.t = "raise"}}
    \cup {Str(QueryFailedPrefix \o c.ret.s) :
            c \in {d \in Range(CallsTo("execute_query")) : d.ret.t = "raise"}}

\* C11: pipeline state is not shared across invocations: every
\* answer_question call starts from a state in which question_type, entities,
\* query, results, answer and error are unset, and an error or rows recorded
\* by an earlier run never appear in a later run: the error of a run comes
\* from its own execute stage and its rows from its own graph_db call.
C11_FreshStatePerCall ==
  status # "idle" =>
    /\ visited = <<>> => \A f \in RunFields : state[f] = None
    /\ state.user_question \in {Str(q) : q \in Questions}
    /\ state.error # None => (ExecuteRan /\ state.error \in ErrorsOfThisRun)
    /\ Truthy(StateRows) =>
         \E c \in Range(CallsTo("execute_query")) : c.ret = StateRows
    /\ status = "returned" =>
         /\ result.error = state.error
         /\ result.results_count = RowsReturnedCount

\* a later call on a LifeScienceAgent object starts with every field unset
C11_Witness ==
  /\ IsLS
  /\ rerun
  /\ status = "running"
  /\ visited = <<>>
  /\ state.error = None
  /\ state.query_results = None

\* C12: every pipeline run that terminates has final_answer set to a text
\* (never None), whichever path was taken: success formatting, the empty-rows
\* short-circuit, or the error path.
C12_AnswerAlwaysSet ==
  Finished => state.final_answer.t = "str"

\* C13: _normalize_string is idempotent: over letters, the space, '_' and
\* '-', normalizing an already normalized string returns it unchanged.
C13_NormalizeIdempotent ==
  Len(normalized) = 3 => normalized[3] = normalized[2]

\* ----------------------------------------------------- evaluation claims
IsEV == evaluator = "evaluation_metrics"
IsEB == evaluator = "src.agents.evaluation_metrics"

\* the questions the agent was called with, in call order
Asked == SelectSeq(events, LAMBDA e : e.op # "clear_history")

\* evaluate has run and scored every example of a one-example dataset
ScoredOne ==
  /\ evaluator # "none"
  /\ Len(dataset) = 1
  /\ Len(Asked) = 1
  /\ ev_pc \in {"conversations", "examples", "done"}
  /\ ev_exc = NoExc

IsZero(ratio) == ratio.num = 0

\* C14: evaluate on an empty dataset returns an all-zero report (the three
\* accuracies and the average duration are 0) and raises no division error.
C14_EmptyDatasetZeroReport ==
  (evaluator # "none" /\ dataset = <<>>) =>
    /\ ev_exc = NoExc
    /\ ev_pc = "done" =>
         /\ IsZero(report.classification_accuracy)
         /\ IsZero(report.entity_accuracy)
         /\ IsZero(report.answer_accuracy)
         /\ IsEV => IsZero(report.average_query_duration_seconds)

\* the normalized values of all the rows the agent's query returned
AllRowValues == EV_extract_values_from_results(final_state.results.items)

ExpectedValues(example) ==
  EV_normalized_set(DictGet(example, "expected_results", List(<<>>)))

\* C15: an answer match is counted exactly when the normalized set of the
\* values of all the rows the query returned equals the normalized
\* expected_results (or both are empty); the number of rows returned does
\* not limit which rows are compared.
C15_AllRowsCompared ==
  (IsEV /\ ScoredOne) =>
    (answer_correct = 1 <=> AllRowValues = ExpectedValues(dataset[1]))

\* the example of the dataset that carries a question
ExampleAsked(question) == CHOOSE example \in Range(dataset) : example["question"] = question

\* the conversation an example belongs to: the one its conversation_id
\* names, or one of its own when it has none
ConversationOf(example) ==
  IF "conversation_id" \in DOMAIN example
    THEN example["conversation_id"]
    ELSE [t |-> "own", s |-> example["question"].s]

Conversations == {ConversationOf(example) : example \in Range(dataset)}

MemoryEnabled == memory.conversation_memory_enabled /\ memory.memory_manager

ClearCalls == {k \in 1..Len(events) : events[k].op = "clear_history"}
AgentCalls == {k \in 1..Len(events) : events[k].op # "clear_history"}

\* the call events[k] is the first one made for its conversation
FirstOfConversation(k) ==
  \A j \in AgentCalls :
    j < k => ConversationOf(ExampleAsked(events[j].arg)) # ConversationOf(ExampleAsked(events[k].arg))

\* C16: with conversation memory enabled, clear_history is invoked exactly
\* once per distinct conversation group, before that group's first example
\* is run and never between two examples of the same group; with memory
\* disabled it is never invoked.
C16_ClearOncePerConversation ==
  IsEV =>
    /\ ~memory.conversation_memory_enabled => ClearCalls = {}
    /\ MemoryEnabled =>
         /\ \A k \in AgentCalls :
              (k > 1 /\ (k - 1) \in ClearCalls) <=> FirstOfConversation(k)
         /\ \A k \in ClearCalls : k < Len(events) => (k + 1) \in AgentCalls
         /\ ev_pc = "done" => Cardinality(ClearCalls) = Cardinality(Conversations)

\* position of an example in the dataset
IndexOf(example) == CHOOSE i \in 1..Len(dataset) : dataset[i] = example

RECURSIVE Flatten(_)
Flatten(groups) ==
  IF groups = <<>> THEN <<>> ELSE Head(groups).examples \o Flatten(Tail(groups))

\* C17: every example without conversation_id forms a singleton group of
\* its own, whatever conversation_id strings the other examples carry;
\* groups are visited in order of first appearance and the examples of a
\* group in input order; every example of the dataset is run exactly once.
C17_GroupingAndOrder ==
  (IsEV /\ ev_pc \notin {"idle", "raised"}) =>
    /\ \A g \in 1..Len(grouped_dataset) :
         LET examples == grouped_dataset[g].examples IN
         /\ \A i \in 1..Len(examples) :
              "conversation_id" \notin DOMAIN examples[i] => Len(examples) = 1
         /\ \A i, j \in 1..Len(examples) :
              i < j => IndexOf(examples[i]) < IndexOf(examples[j])
         /\ \A h \in 1..Len(grouped_dataset) :
              g < h => IndexOf(examples[1]) < IndexOf(grouped_dataset[h].examples[1])
    /\ \A k \in 1..Len(Asked) : Asked[k].arg = Flatten(grouped_dataset)[k]["question"]
    /\ ev_pc = "done" =>
         /\ Len(Asked) = Len(dataset)
         /\ \A example \in Range(dataset) :
              Cardinality({k \in 1..Len(Asked) : Asked[k].arg = example["question"]}) = 1

\* the agent's final state agrees with what the example expects
CategoryAgrees(example) ==
  final_state.question_type = DictGet(example, "expected_type", None)
EntitiesAgree(example) ==
  EV_normalized_set(final_state.entities)
    = EV_normalized_set(DictGet(example, "expected_entities", List(<<>>)))
RowsAgree(example) == AllRowValues = ExpectedValues(example)

IsOne(ratio) == ratio.num = ratio.den

\* C18: each accuracy is the number of matching examples divided by the
\* number of examples and the average duration is the sum of the measured
\* durations divided by the number of examples; an example adds at most one
\* to each counter; when every example's predicted category, entities and
\* row values match the expected ones, all three accuracies are 1.0.
C18_AccuraciesAreQuotients ==
  IsEV =>
    /\ classification_correct <= Len(Asked)
    /\ entity_correct <= Len(Asked)
    /\ answer_correct <= Len(Asked)
    /\ ev_pc = "done" =>
         /\ report.classification_accuracy = Ratio(classification_correct, Len(dataset))
         /\ report.entity_accuracy = Ratio(entity_correct, Len(dataset))
         /\ report.answer_accuracy = Ratio(answer_correct, Len(dataset))
         /\ report.average_query_duration_seconds = Ratio(Sum(query_durations), Len(dataset))
         /\ Len(query_durations) = Len(dataset)
         /\ (Len(dataset) = 1 /\ CategoryAgrees(dataset[1]) /\ EntitiesAgree(dataset[1])
               /\ RowsAgree(dataset[1])) =>
              /\ IsOne(report.classification_accuracy)
              /\ IsOne(report.entity_accuracy)
              /\ IsOne(report.answer_accuracy)

\* the entity comparison of the evaluator that runs, on two lists
EntitiesMatch(predicted, expected) ==
  IF IsEV
    THEN EV_entities_match([entities |-> predicted], [expected_entities |-> expected])
    ELSE EB_entities_match([entities |-> predicted], [expected_entities |-> expected])

\* the lists that hold the same entities as xs, in any order and any number
Rearrangements(xs) ==
  {List(ys) : ys \in {zs \in SeqsUpTo(EntityNames, MaxListLen + 1) : Range(zs) = Elements(xs)}}

ExpectedEntities == DictGet(dataset[1], "expected_entities", List(<<>>))

\* C19: the entity match is order-independent and multiplicity-independent:
\* permuting or duplicating the elements of the predicted list or of the
\* expected list does not change whether the example counts as a match.
C19_EntityMatchIsSetMatch ==
  (ScoredOne /\ final_state.entities.t = "list") =>
    \A predicted \in Rearrangements(final_state.entities),
       expected \in Rearrangements(ExpectedEntities) :
      (entity_correct = 1) <=> EntitiesMatch(predicted, expected)

\* the predicted entities b, a were matched against the expected a, b
C19_Witness ==
  /\ ScoredOne
  /\ final_state.entities = List(<<TextB, TextA>>)
  /\ ExpectedEntities = List(<<TextA, TextB>>)
  /\ entity_correct = 1

\* C20: an example whose expected_results is empty or absent and whose
\* predicted rows yield no values is counted as an answer match, and adds
\* to answer_correct exactly once.
C20_EmptyAgainstEmpty ==
  (IsEV /\ ScoredOne
     /\ Elements(DictGet(dataset[1], "expected_results", List(<<>>))) = {}
     /\ AllRowValues = {}) =>
    answer_correct = 1

\* an example without expected_results was run and the query returned no rows
C20_Witness ==
  /\ IsEV
  /\ ScoredOne
  /\ "expected_results" \notin DOMAIN dataset[1]
  /\ final_state.results.items = <<>>
  /\ answer_correct = 1

\* the last call made on the agent raised
AgentRaised == Len(Asked) > 0 /\ final_state = None

\* C21: evaluate does not catch an exception the agent raises for one
\* example: the exception leaves evaluate, no later example is run and no
\* report, not even a partial one, is returned.
C21_AgentExceptionPropagates ==
  /\ [](AgentRaised =>
          /\ ev_pc = "raised"
          /\ ev_exc = "APIError"
          /\ report = None
          /\ events[Len(events)].op # "clear_history")
  /\ [][ev_pc = "raised" => (events' = events /\ report' = report /\ ev_pc' = ev_pc)]_vars

\* the agent raised on an example that is not the last one of the dataset
C21_Witness ==
  /\ IsEV
  /\ AgentRaised
  /\ ev_exc = "APIError"
  /\ Len(Asked) < Len(dataset)
  /\ report = None

RequiredFields == {"question", "expected_type", "expected_entities", "expected_results"}

Defective(example) == RequiredFields \ (DOMAIN example) # {}

\* position of the first record without a question, 0 if there is none
FirstWithoutQuestion ==
  IF \A i \in 1..Len(dataset) : "question" \in DOMAIN dataset[i] THEN 0
  ELSE CHOOSE i \in 1..Len(dataset) :
         /\ "question" \notin DOMAIN dataset[i]
         /\ \A j \in 1..(i - 1) : "question" \in DOMAIN dataset[j]

\* C22 as stated: a dataset record that lacks a required field (question,
\* expected_type, expected_entities or expected_results) is fatal to
\* evaluate: the run fails with an error, no pipeline run is scored against
\* the defective record and no report is produced.
C22_MissingFieldIsFatal ==
  (IsEV /\ \E i \in 1..Len(dataset) : Defective(dataset[i])) =>
    /\ ev_pc # "done"
    /\ report = None
    /\ \A i \in 1..Len(dataset) : Defective(dataset[i]) => Len(Asked) < i

\* C22 amended: only a missing question is fatal.  The record without a
\* question raises KeyError when the loop reaches it, after the records
\* before it have been run, and no report is produced; a record that lacks
\* expected_type, expected_entities or expected_results raises nothing and
\* is scored against the defaults None, [] and [].
C22_OnlyMissingQuestionIsFatal ==
  (IsEV /\ ev_pc # "idle") =>
    /\ FirstWithoutQuestion > 0 =>
         /\ ev_pc # "done"
         /\ report = None
         /\ Len(Asked) < FirstWithoutQuestion
         /\ ev_exc = "KeyError" => Len(Asked) = FirstWithoutQuestion - 1
    /\ FirstWithoutQuestion = 0 =>
         /\ ev_exc # "KeyError"
         /\ ScoredOne =>
              /\ classification_correct = 1
                   <=> final_state.question_type = DictGet(dataset[1], "expected_type", None)
              /\ entity_correct = 1
                   <=> EV_normalized_set(final_state.entities)
                         = EV_normalized_set(DictGet(dataset[1], "expected_entities", List(<<>>)))

\* a record without expected_type was scored and the report was returned
C22_Witness ==
  /\ IsEV
  /\ ev_pc = "done"
  /\ "question" \in DOMAIN dataset[1]
  /\ "expected_type" \notin DOMAIN dataset[1]
  /\ Len(Asked) = 1
  /\ report # None

\* the one store call a query method is to make for a caller's string
TemplateCallOf(h) ==
  LET m == TQ_methods[h.method]
      parameters == Dict(m.parameter :> Str(h.term))
  IN [query |-> TQ_templates[m.template],
      parameters |-> parameters,
      ret |-> TQ_execute_query(graph_db, TQ_templates[m.template], parameters)]

\* C23: every query method of TemplateQueryAgent makes exactly one
\* execute_query call, with the template text that __init__ built for it and
\* the caller's string as the value of the query parameter only; what the
\* method gives back is what that call gave back; query_templates stays as
\* built; two calls of one method with one string on one store end alike.
C23_TemplateMethodsAreParameterized ==
  /\ query_templates = TQ_templates
  /\ \A i \in DOMAIN tq_history :
       /\ tq_history[i].calls = <<TemplateCallOf(tq_history[i])>>
       /\ tq_history[i].outcome = tq_history[i].calls[1].ret
       /\ \A j \in DOMAIN tq_history :
            (tq_history[j].method = tq_history[i].method /\ tq_history[j].term = tq_history[i].term)
              => tq_history[j].outcome = tq_history[i].outcome

C23_Witness ==
  /\ graph_db = "echo"
  /\ Len(tq_history) = 2
  /\ tq_history[1].method = "get_pathway_for_disease"
  /\ tq_history[2].method = "get_pathway_for_disease"
  /\ tq_history[1].term = <<"x'", ") RETURN 1 //">>
  /\ tq_history[2].term = tq_history[1].term
  /\ tq_history[2].outcome.t = "list"
  /\ Len(tq_history[2].outcome.items) = 1

\* the calls of graph_db.execute_query that raised in this run
RaisedExecutes == SelectSeq(CallsTo("execute_query"), LAMBDA c : c.ret.t = "raise")

\* C24: WorkflowAgent: in every run where graph_db.execute_query raised, the
\* final state has error = 'Query failed: ' followed by the exception's text
\* and results = [], the run returns, its answer is 'Sorry, I had trouble
\* with that question: ' followed by that error, results_count is 0 and the
\* format stage made no LLM call.
C24_ExecuteFailureAnswer ==
  (IsWA /\ Finished /\ RaisedExecutes # <<>>) =>
     /\ state.error = Str(QueryFailedPrefix \o RaisedExecutes[1].ret.s)
     /\ state.results = List(<<>>)
     /\ state.final_answer = Str(SorryPrefix \o state.error.s)
     /\ status = "returned"
     /\ result.answer = state.final_answer
     /\ result.error = state.error
     /\ result.results_count = 0
     /\ LLMCallsOf("format") = <<>>

\* a WorkflowAgent run whose store raised with a message has returned
C24_Witness ==
  /\ IsWA
  /\ status = "returned"
  /\ RaisedExecutes # <<>>
  /\ RaisedExecutes[1].ret.s = <<"db down">>
  /\ "format" \in Range(visited)

\* the state keys that belong to each stage
OwnKeys(node) ==
  CASE node \in {"classify_question", "classify"} -> {"question_type"}
    [] node \in {"extract_entities", "extract"} -> {"entities"}
    [] node \in {"generate_cypher", "generate"} -> {"cypher_query"}
    [] node \in {"execute_query", "execute"} -> {"query_results", "results", "error"}
    [] node \in {"format_response", "format", "handle_error"} -> {"final_answer"}

\* C25: the state keys are write-once per run, for both agents: each stage
\* execution assigns only keys of its own stage (never user_question), and no
\* key is assigned by two stage executions of the same run.
C25_WriteOncePerRun ==
  /\ \A i \in DOMAIN assigned : assigned[i].keys \subseteq OwnKeys(assigned[i].node)
  /\ \A i, j \in DOMAIN assigned : i # j => assigned[i].keys \cap assigned[j].keys = {}

\* the same, for WorkflowAgent only
WorkflowAgentWritesOnce == IsWA => C25_WriteOncePerRun

\* the generate stage has stored the query of the current response
GenerateRan == status = "running" /\ Len(visited) = 3

\* the lines of a text that are not blank
NonBlankLines(text) == SelectSeq(Split(text, "\n"), LAMBDA line : Strip(line) # <<>>)

\* a stored query is free of the wrapping of a fenced block around `lines`
Unwrapped(cypher_query, lines) ==
  /\ Fence \notin Range(cypher_query)
  /\ \A i \in DOMAIN Split(cypher_query, "\n") : ~StartsWith(Split(cypher_query, "\n")[i], "cypher")
  /\ NonBlankLines(cypher_query) = lines

\* C26: for every generator response that wraps the query in a fenced code
\* block, with or without the 'cypher' tag and with or without text before
\* the opening fence, the cypher_query stored by the generate stage of either
\* agent holds no fence marker and no language-tag line, and holds every line
\* of the query.
C26_FenceStripped ==
  GenerateRan =>
    \A preamble \in Preambles, tag \in LanguageTags, lines \in FencedQueries :
      response.text = Fenced(preamble, tag, lines) => Unwrapped(state.cypher_query.s, lines)

\* the same for the responses that begin with the fence
FenceFirstStripped ==
  GenerateRan =>
    \A tag \in LanguageTags, lines \in FencedQueries :
      response.text = Fenced(<<>>, tag, lines) => Unwrapped(state.cypher_query.s, lines)

\* the scalar leaves of a value: of a list, those of its items; of a mapping,
\* those of its values
RECURSIVE Leaves(_)
Leaves(v) ==
  CASE v.t = "list" -> UNION {Leaves(v.items[i]) : i \in 1..Len(v.items)}
    [] v.t = "dict" -> UNION {Leaves(x) : x \in DictValues(v)}
    [] v.t = "str" -> {v}
    [] OTHER -> {}

\* the rows the evaluator flattens: the raw_results of the result dictionary
\* for the first evaluator, the results of the final state for the second
GivenRows ==
  IF IsEV THEN List(WA_result(final_state).value.raw_results) ELSE final_state.results

\* what the two evaluators extract from the rows given
ExtractedByEV == EV_extract_values_from_results(GivenRows.items)
ExtractedByEB == EB_results_values([results |-> GivenRows])

\* C27: the evaluator's flattening is recursive: every scalar leaf of the
\* rows, at any depth of lists and mappings, is in the set compared against
\* expected_results; and the two evaluator implementations extract the same
\* leaves from the same rows.
C27_FlatteningIsRecursive ==
  ScoredOne =>
    /\ IsEV => {EV_normalize_string(leaf) : leaf \in Leaves(GivenRows)} \subseteq ExtractedByEV
    /\ IsEB => Leaves(GivenRows) \subseteq ExtractedByEB
    /\ {EV_normalize_string(v) : v \in ExtractedByEB} = ExtractedByEV

\* the same for rows whose values are strings or lists of strings
FlatRowsExtracted ==
  (ScoredOne /\ \A i \in 1..Len(GivenRows.items) :
                  /\ GivenRows.items[i].t = "dict"
                  /\ \A x \in DictValues(GivenRows.items[i]) :
                       x.t = "str" \/ (x.t = "list" /\ \A e \in Elements(x) : e.t = "str"))
    => /\ {EV_normalize_string(leaf) : leaf \in Leaves(GivenRows)} = ExtractedByEV
       /\ Leaves(GivenRows) = ExtractedByEB

\* two strings that differ, but only in letter case or in surrounding blanks
DiffersInCaseOrBlanks(a, b) ==
  /\ a.t = "str" /\ b.t = "str"
  /\ a # b
  /\ Strip(Lower(a.s)) = Strip(Lower(b.s))

\* C28: evaluate counts a classification match exactly when the predicted
\* question_type is identical to the example's expected_type; a prediction
\* that differs from it only in letter case or in surrounding characters is
\* not a match.  Both evaluators.
C28_ClassificationMatchIsExact ==
  ScoredOne =>
    /\ classification_correct = 1
         <=> final_state.question_type = DictGet(dataset[1], "expected_type", None)
    /\ DiffersInCaseOrBlanks(final_state.question_type, DictGet(dataset[1], "expected_type", None))
         => classification_correct = 0

\* an example expecting 'a' was scored against the prediction 'A'
C28_Witness ==
  /\ ScoredOne
  /\ final_state.question_type = Str(<<"A">>)
  /\ DictGet(dataset[1], "expected_type", None) = TextA
  /\ classification_correct = 0

\* the extract stage of this run has returned
ExtractRan == \E i \in DOMAIN assigned : assigned[i].node \in {"extract_entities", "extract"}

\* C29: after the extract stage, entities is a list (possibly empty) for
\* every extractor response text, the texts that are valid JSON but not a
\* list included; both agents.
C29_EntitiesAlwaysList == ExtractRan => state.entities.t = "list"

\* the same for LifeScienceAgent, which parses only bracketed texts
LS_EntitiesAlwaysList == IsLS => C29_EntitiesAlwaysList

\* the level an exercise belongs to
LevelOf(exercise) ==
  CHOOSE i \in DOMAIN EXERCISE_PROGRESSION :
    \E k \in DOMAIN EXERCISE_PROGRESSION[i].exercises : EXERCISE_PROGRESSION[i].exercises[k] = exercise

ExerciseOrder == <<"1.1", "1.2", "2.1", "2.2", "3.1", "3.2", "4.1", "4.2">>

\* the learner started with nothing completed
StartedFromNothing == recommendations # <<>> /\ recommendations[1].given = {}

\* C30: for every set of completed exercises with one of the eight missing,
\* get_next_recommended_exercise returns an exercise that is not completed
\* and whose level's requirements are all completed; it returns the default
\* '4.2' only when all eight are completed; and a learner who starts with
\* nothing and keeps completing the recommendation is given 1.1, 1.2, 2.1,
\* 2.2, 3.1, 3.2, 4.1, 4.2 in that order, each once.
C30_RecommendationProgression ==
  /\ \A i \in DOMAIN recommendations :
       LET r == recommendations[i] IN
       /\ Exercises \ r.given # {} =>
            /\ ~r.default
            /\ r.exercise \in Exercises \ r.given
            /\ \A k \in DOMAIN EXERCISE_PROGRESSION[LevelOf(r.exercise)].requirements :
                 EXERCISE_PROGRESSION[LevelOf(r.exercise)].requirements[k] \in r.given
       /\ r.default => (Exercises \subseteq r.given /\ r.exercise = DefaultExercise)
  /\ StartedFromNothing =>
       /\ \A i \in DOMAIN recommendations :
            IF i <= Len(ExerciseOrder)
              THEN recommendations[i].exercise = ExerciseOrder[i] /\ ~recommendations[i].default
              ELSE recommendations[i].default
       /\ Len(recommendations) >= Len(ExerciseOrder) => completed_exercises = Exercises

\* the learner who started with nothing has been given all eight exercises
C30_Witness ==
  /\ StartedFromNothing
  /\ Len(recommendations) = Len(ExerciseOrder)
  /\ recommendations[8].exercise = "4.2"
  /\ completed_exercises = Exercises

====
